---------------------------- MODULE Spec2Model ----------------------------
(***************************************************************************)
(* A model of the MedAIScout analysis pipeline (src/Tool/Model.py and the  *)
(* collaborators it calls).                                                *)
(*                                                                         *)
(* Conventions.                                                            *)
(*  - A text (Python str) is a sequence of words; the empty string is      *)
(*    <<>>.  Substring search is search for a contiguous run of words.     *)
(*  - A confidence (Python float in [0,1]) is an integer number of         *)
(*    hundredths, so 1e-2 is 1 and 1.0 is 100.                             *)
(*  - A scored term (the tuple (score, text)) is the pair <<score, text>>. *)
(***************************************************************************)
EXTENDS Integers, Sequences, FiniteSets, TLC

VARIABLES
    \* ---- the fields of the Analyser object (Model.py:426-429)
    initial_results, filtered_results, additional_results, neglected_results,
    \* ---- level_1 in progress: where it is, its pages, its local `answer`,
    \*      and what the last call returned
    l1_pc, l1_pages, answer, l1_ret,
    \* ---- level_2 in progress: where it is, its argument `results`, the
    \*      index of the next candidate of its loop, what the web validation
    \*      of the last candidate did, and what the last call returned
    l2_pc, l2_results, l2_i, l2_web, l2_ret,
    \* what check_desc gave, or would have given, for each candidate level_2
    \* has looked at, in the order of the list
    l2_verdicts,
    \* ---- the last level_2_alt call: its argument, how the keyword filter
    \*      answered ("none" before any call), and what the call returned
    alt_results, alt_llm, alt_ret,
    \* ---- the last level_3 call: its argument, what the paper search
    \*      answers to each query, and what the call returned
    l3_pc, l3_results, l3_world, l3_ret,
    \* ---- the last level_4 call: its argument, what the page fetch gives
    \*      for each URL, and the two structures the call returned
    l4_pc, l4_results, l4_world, attack_papers, rejected_papers,
    \* ---- the last call of the paper classifier: its page and its label
    cls_pc, cls_page, cls_label,
    \* ---- the output CSV, and one batch run (process_range_pdfs or
    \*      process_from_file): its mode, its documents, the loop position,
    \*      the two counters, and the positions create_row was invoked for
    \*      and the positions that failed
    csv_rows, batch_pc, batch_mode, batch_docs, batch_i, processed, failed,
    invoked, failures,
    \* ---- process_document on the one global Analyser: where the current
    \*      call stands, how many calls there were, the call's locals, what
    \*      it returns, and the entries each level produced in this call
    doc_pc, doc_n, algorithm, all_answers, alt_keywords, filtered_answer,
    all_papers, doc_attack_papers, rejections, doc_results, doc_search_results,
    produced,
    \* ---- one call of a level function as the Orchestrator sees it: the
    \*      function, its argument, and whether it returned or raised
    call_pc, call_fn, call_arg, call_out,
    \* ---- whether step 4 of the current process_document call inserted the
    \*      Medical Futurist algorithm, and what the web gave for each
    \*      candidate of its Level 2
    seeded, doc_webs,
    \* ---- two runs of level_1 on the same paragraphs and the same
    \*      question-answering responses: where the experiment stands, the
    \*      responses, and the initial_results each run returned
    rerun_pc, rerun_input, rerun_first, rerun_second,
    \* the levels invoked for the document in hand, in the order of the
    \* calls, and what step 11 had before it: combined_answer, attack_papers
    doc_calls, reported_candidates, reported_papers,
    \* one call of LLM.keyword_completion: what generate gave and the
    \* LLMResponse as <<success, data>>
    kc_pc, kc_reply, kc_out,
    \* one call of scholarly_scraper.get_info: what the search gave and
    \* the list returned
    gi_pc, gi_search, gi_extract,
    \* main(): where it is, the menu choice, the rows written in this run,
    \* why the loop was left, whether csvfile is closed, whether
    \* cleanup_resources has run
    main_pc, main_choice, main_rows, main_exit, csv_closed, cleanup_ran,
    \* FDA_Scraper.process_single_submission: where it is, the submissions
    \* handled, the file at pdf_filename before the call and now ("none", or
    \* "small" up to 1000 bytes, or "large"), whether the HTML fallback file
    \* was written, the attempt, and the status returned
    fda_pc, fda_n, fda_before, fda_file, fda_html, fda_attempt, fda_status,
    \* download_reports' count of the 'success' statuses
    successful_downloads

analyserVars == <<initial_results, filtered_results, additional_results, neglected_results>>
l1Vars == <<l1_pc, l1_pages, answer, l1_ret>>
l2Vars == <<l2_pc, l2_results, l2_i, l2_web, l2_ret, l2_verdicts>>
altVars == <<alt_results, alt_llm, alt_ret>>
l3Vars == <<l3_pc, l3_results, l3_world, l3_ret>>
l4Vars == <<l4_pc, l4_results, l4_world, attack_papers, rejected_papers>>
clsVars == <<cls_pc, cls_page, cls_label>>
batchVars ==
    <<csv_rows, batch_pc, batch_mode, batch_docs, batch_i, processed, failed,
      invoked, failures>>
docVars ==
    <<doc_pc, doc_n, algorithm, all_answers, alt_keywords, filtered_answer,
      all_papers, doc_attack_papers, rejections, doc_results, doc_search_results,
      produced>>
callVars == <<call_pc, call_fn, call_arg, call_out>>
seedVars == <<seeded, doc_webs>>
rerunVars == <<rerun_pc, rerun_input, rerun_first, rerun_second>>
traceVars == <<doc_calls, reported_candidates, reported_papers>>
kcVars == <<kc_pc, kc_reply, kc_out>>
giVars == <<gi_pc, gi_search, gi_extract>>
mainVars == <<main_pc, main_choice, main_rows, main_exit, csv_closed, cleanup_ran>>
fdaVars == <<fda_pc, fda_n, fda_before, fda_file, fda_html, fda_attempt, fda_status,
            successful_downloads>>
vars ==
    <<analyserVars, l1Vars, l2Vars, altVars, l3Vars, l4Vars, clsVars, batchVars,
      docVars,
      callVars,
      seedVars,
      rerunVars,
      traceVars,
      kcVars,
      giVars,
      mainVars,
      fdaVars>>

\* what a call of each operation leaves alone besides the Analyser's fields
exceptL1 == <<l2Vars, altVars, l3Vars, l4Vars, clsVars, batchVars, docVars, callVars, seedVars, rerunVars, traceVars, kcVars, giVars, mainVars, fdaVars>>
exceptL2 == <<l1Vars, altVars, l3Vars, l4Vars, clsVars, batchVars, docVars, callVars, seedVars, rerunVars, traceVars, kcVars, giVars, mainVars, fdaVars>>
exceptAlt == <<l1Vars, l2Vars, l3Vars, l4Vars, clsVars, batchVars, docVars, callVars, seedVars, rerunVars, traceVars, kcVars, giVars, mainVars, fdaVars>>
exceptL3 == <<l1Vars, l2Vars, altVars, l4Vars, clsVars, batchVars, docVars, callVars, seedVars, rerunVars, traceVars, kcVars, giVars, mainVars, fdaVars>>
exceptL4 == <<l1Vars, l2Vars, altVars, l3Vars, clsVars, batchVars, docVars, callVars, seedVars, rerunVars, traceVars, kcVars, giVars, mainVars, fdaVars>>
exceptCls == <<l1Vars, l2Vars, altVars, l3Vars, l4Vars, batchVars, docVars, callVars, seedVars, rerunVars, traceVars, kcVars, giVars, mainVars, fdaVars>>
exceptBatch == <<l1Vars, l2Vars, altVars, l3Vars, l4Vars, clsVars, docVars, callVars, seedVars, rerunVars, traceVars, kcVars, giVars, mainVars, fdaVars>>
exceptDoc == <<l1Vars, l2Vars, altVars, l3Vars, l4Vars, clsVars, batchVars, callVars, rerunVars, kcVars, giVars, mainVars, fdaVars>>
exceptCall == <<l1Vars, l2Vars, altVars, l3Vars, l4Vars, clsVars, batchVars, docVars, seedVars, rerunVars, traceVars, kcVars, giVars, mainVars, fdaVars>>
exceptRerun == <<l1Vars, l2Vars, altVars, l3Vars, l4Vars, clsVars, batchVars, docVars, callVars, seedVars, traceVars, kcVars, giVars, mainVars, fdaVars>>
exceptKc == <<l1Vars, l2Vars, altVars, l3Vars, l4Vars, clsVars, batchVars, docVars, callVars, seedVars, rerunVars, traceVars, giVars, mainVars, fdaVars>>
exceptGi == <<l1Vars, l2Vars, altVars, l3Vars, l4Vars, clsVars, batchVars, docVars, callVars, seedVars, rerunVars, traceVars, kcVars, mainVars, fdaVars>>
exceptMain == <<l1Vars, l2Vars, altVars, l3Vars, l4Vars, clsVars, batchVars, docVars, callVars, seedVars, rerunVars, traceVars, kcVars, giVars, fdaVars>>
exceptFda == <<l1Vars, l2Vars, altVars, l3Vars, l4Vars, clsVars, batchVars, docVars, callVars, seedVars, rerunVars, traceVars, kcVars, giVars, mainVars>>

-----------------------------------------------------------------------------
(* Bounds of the model                                                     *)

\* the largest number of paragraphs of a document
MaxPages == 1

\* the largest number of candidates handed to level_2 and level_2_alt
MaxCandidates == 7

\* the largest number of comma- or newline-separated items of a model reply
MaxReplyItems == 2

\* the largest number of combined candidates handed to level_3, and of
\* keyword positions of the structure handed to level_4
MaxKeywords == 2

\* the largest number of words of a page handed to the paper classifier
MaxPageWords == 3

\* the largest number of documents of one batch run
MaxDocs == 3

\* the largest number of documents process_document is called for
MaxDocuments == 2

-----------------------------------------------------------------------------
(* Texts                                                                   *)

T_empty == <<>>
T_xgb == <<"xgboost">>
T_xgbc == <<"xgboost", "classifier">>
T_cnn == <<"cnn">>
T_ml == <<"Machine", "learning">>
T_none == <<"None">>

\* The words of the model in the order Python's str comparison gives them.
WordOrder == <<"Machine", "classifier", "cnn", "learning", "xgboost">>

WordRank(w) == CHOOSE k \in 1..Len(WordOrder) : WordOrder[k] = w

\* a < b for two texts, as Python compares str (a proper prefix is smaller)
RECURSIVE TextLess(_, _)
TextLess(a, b) ==
    IF b = <<>> THEN FALSE
    ELSE IF a = <<>> THEN TRUE
    ELSE IF Head(a) = Head(b) THEN TextLess(Tail(a), Tail(b))
    ELSE WordRank(Head(a)) < WordRank(Head(b))

\* x < y for two (score, text) tuples, as Python compares tuples
TupleLess(x, y) == x[1] < y[1] \/ (x[1] = y[1] /\ TextLess(x[2], y[2]))

\* `sub in text` for two str: sub occurs in text as a contiguous run
IsSubstring(sub, text) ==
    \E k \in 0..Len(text) :
        /\ k + Len(sub) <= Len(text)
        /\ \A m \in 1..Len(sub) : text[k + m] = sub[m]

\* list.sort(reverse=True): descending and stable, an element goes after
\* every element already placed that is not smaller than it
RECURSIVE InsertDesc(_, _)
InsertDesc(x, s) ==
    IF s = <<>> THEN <<x>>
    ELSE IF TupleLess(Head(s), x) THEN <<x>> \o s
    ELSE <<Head(s)>> \o InsertDesc(x, Tail(s))

RECURSIVE SortReverse(_)
SortReverse(s) ==
    IF s = <<>> THEN <<>>
    ELSE InsertDesc(s[Len(s)], SortReverse(SubSeq(s, 1, Len(s) - 1)))

-----------------------------------------------------------------------------
(* Helper_functions.check_presence                                         *)

\* The mutant: the containment check the specification describes.
CheckPresenceBySubstring(element, array) ==
    \E k \in 1..Len(array) : IsSubstring(element, array[k][2])

\* `element in i` for each row i of array.  A row is a (score, text) tuple,
\* so `in` is tuple membership: element equals the score (never, for a str)
\* or element equals the text.
check_presence(element, array) ==
    \E k \in 1..Len(array) : element = array[k][2]

-----------------------------------------------------------------------------
(* Model.analyse_pages                                                     *)

\* the confidence floor 1e-2 of Model.py:398, in hundredths
ConfidenceFloor == 1

NoAnswer == <<0, <<"-">>>>

\* What the question-answering pipeline gives for one paragraph: nothing
\* (a blank paragraph, an empty result or an exception: all skip the
\* paragraph) or a scored answer, which may be at the floor.
QAResponses ==
    {NoAnswer, <<1, T_cnn>>, <<90, T_xgbc>>, <<50, T_xgb>>, <<50, T_cnn>>}

RECURSIVE KeepAboveFloor(_)
KeepAboveFloor(resp) ==
    IF resp = <<>> THEN <<>>
    ELSE IF Head(resp) # NoAnswer /\ Head(resp)[1] > ConfidenceFloor
         THEN <<Head(resp)>> \o KeepAboveFloor(Tail(resp))
         ELSE KeepAboveFloor(Tail(resp))

\* resp[p] is the pipeline's response for paragraph p
analyse_pages(resp) == SortReverse(KeepAboveFloor(resp))

-----------------------------------------------------------------------------
(* Analyser.level_1                                                        *)

\* "Remove duplicates" (Model.py:485-493): keep answer[0], then every later
\* answer whose text check_presence does not find among those kept
RECURSIVE RemoveDuplicates(_, _)
RemoveDuplicates(kept, rest) ==
    IF rest = <<>> THEN kept
    ELSE IF check_presence(Head(rest)[2], kept)
         THEN RemoveDuplicates(kept, Tail(rest))
         ELSE RemoveDuplicates(Append(kept, Head(rest)), Tail(rest))

\* initial_results as level_1 leaves it for the collected answers
UniqueResults(collected) ==
    LET sorted == SortReverse(collected)
    IN  IF sorted = <<>> THEN <<>>
        ELSE RemoveDuplicates(<<sorted[1]>>, Tail(sorted))

\* level_1 is entered; with no pages it returns [] at once and touches no field
L1Start ==
    /\ l1_pc = "idle"
    /\ \E n \in 0..MaxPages :
        /\ l1_pages' = n
        /\ l1_pc' = IF n = 0 THEN "idle" ELSE "q1"
    /\ answer' = <<>>
    /\ l1_ret' = <<>>
    /\ UNCHANGED <<analyserVars, exceptL1>>

\* questions 1, 2 and 3: answer.extend(analyse_pages(pages, QUESTION_n))
L1Question ==
    /\ l1_pc \in {"q1", "q2", "q3"}
    /\ \E resp \in [1..l1_pages -> QAResponses] :
        answer' = answer \o analyse_pages(resp)
    /\ l1_pc' = CASE l1_pc = "q1" -> "q2" [] l1_pc = "q2" -> "q3" [] OTHER -> "q4"
    /\ UNCHANGED <<l1_pages, l1_ret, analyserVars, exceptL1>>

\* question 4, the sort, the deduplication and the return
L1Finish ==
    /\ l1_pc = "q4"
    /\ \E resp \in [1..l1_pages -> QAResponses] :
        additional_results' = analyse_pages(resp)
    /\ initial_results' = UniqueResults(answer)
    /\ l1_ret' = initial_results'
    /\ answer' = <<>>
    /\ l1_pc' = "idle"
    /\ UNCHANGED <<l1_pages, filtered_results, neglected_results, exceptL1>>

-----------------------------------------------------------------------------
(* Regular expressions                                                     *)
(*                                                                         *)
(* A compiled pattern is the set of word runs it matches: r"machine\s*     *)
(* learning" matches the two words in a row and the two written as one.    *)
(* All patterns of the program carry (?i), so the text is lowered first.   *)

Lower(w) ==
    CASE w = "Machine" -> "machine"
      [] w = "A.I." -> "a.i."
      [] w = "Evasion" -> "evasion"
      [] w = "None" -> "none"
      [] w = "Most" -> "most"
      [] w = "Survey" -> "survey"
      [] w = "Surveys" -> "surveys"
      [] OTHER -> w

LowerText(text) == [k \in 1..Len(text) |-> Lower(text[k])]

\* p.search(text) for one compiled pattern p
PatternSearch(p, text) == \E run \in p : IsSubstring(run, LowerText(text))

\* Helper_functions.regex_search: the first pattern that matches decides
RECURSIVE regex_search(_, _)
regex_search(text, pattern) ==
    IF pattern = <<>> THEN FALSE
    ELSE IF PatternSearch(Head(pattern), text) THEN TRUE
    ELSE regex_search(text, Tail(pattern))

-----------------------------------------------------------------------------
(* Analyser.find_genericwords                                              *)

GenericPatterns ==
    << {<<"machine", "learning">>, <<"machinelearning">>},
       {<<"artificial", "intelligence">>, <<"artificialintelligence">>},
       {<<"510", "k">>, <<"510k">>},
       {<<"a.i.">>} >>

find_genericwords(text) ==
    IF text = <<>> THEN FALSE ELSE regex_search(text, GenericPatterns)

-----------------------------------------------------------------------------
(* browser.check_desc                                                      *)

\* settings.NO_SEARCH_RESULTS
NO_SEARCH_RESULTS == 2

\* the bound 3 of `range(min(settings.NO_SEARCH_RESULTS, 3))`
SampleLimit == 3

Min(a, b) == IF a <= b THEN a ELSE b

SampledPages == Min(NO_SEARCH_RESULTS, SampleLimit)

AIPatterns ==
    << {<<"machine", "learning">>, <<"machinelearning">>},
       {<<"artificial", "intelligence">>, <<"artificialintelligence">>},
       {<<"deep", "learning">>, <<"deeplearning">>},
       {<<"neural", "network">>, <<"neuralnetwork">>},
       {<<"classification", "methods">>, <<"classificationmethods">>},
       {<<"classifier">>},
       {<<"computer", "vision">>, <<"computervision">>} >>

\* What one turn of check_desc's loop meets: the search (or the page fetch)
\* raises; the search has no more pages; the page is an fda.gov, .img or
\* .pdf link; or get_page gives the page's content, "None" when it failed.
WebEvents ==
    { <<"raise">>, <<"end">>, <<"skip">>,
      <<"page", T_none>>, <<"page", <<"deep", "learning">>>>, <<"page", <<"cooking">>>> }

WebBehaviours == [1..SampledPages -> WebEvents]

\* How check_desc ends on the events ev, from turn i of its loop on
RECURSIVE CheckDescFrom(_, _)
CheckDescFrom(ev, i) ==
    IF i > SampledPages THEN "exhausted"
    ELSE CASE ev[i][1] = "raise" -> "raised"
           [] ev[i][1] = "end" -> "exhausted"
           [] ev[i][1] = "skip" -> CheckDescFrom(ev, i + 1)
           [] OTHER ->
                IF ev[i][2] = T_none THEN CheckDescFrom(ev, i + 1)
                ELSE IF regex_search(ev[i][2], AIPatterns) THEN "matched"
                ELSE CheckDescFrom(ev, i + 1)

\* The mutant: an exception inside check_desc leaves result False.
CheckDescFailsClosed(ev) == CheckDescFrom(ev, 1) = "matched"

\* check_desc's return value: True on a match, and True as well when an
\* exception was caught (`result = True` in the except branch)
check_desc(ev) == CheckDescFrom(ev, 1) \in {"matched", "raised"}

-----------------------------------------------------------------------------
(* Analyser.level_2                                                        *)

\* settings.NUMBER_OF_KEYWORDS
NUMBER_OF_KEYWORDS == 5

\* The candidates of the model, in rank order.
KeywordPool ==
    << <<95, <<"cnn">>>>, <<90, <<"xgboost">>>>, <<85, <<"svm">>>>, <<80, <<"lstm">>>>,
       <<75, <<"resnet">>>>, <<70, <<"unet">>>>, <<65, <<"yolo">>>>, <<60, <<"bert">>>>,
       <<55, <<"gan">>>> >>

\* The candidate lists level_2 is given: the first n candidates of the pool,
\* with at most one of them replaced by a generic term or by an empty text.
Level2Inputs ==
    { [k \in 1..n |-> IF k = g THEN <<KeywordPool[k][1], t>> ELSE KeywordPool[k]] :
        n \in 0..MaxCandidates, g \in 0..MaxCandidates, t \in {T_ml, T_empty} }

\* The mutant: the cap is tested with > in place of >=.
CapReachedOffByOne(fr) == Len(fr) > NUMBER_OF_KEYWORDS

\* `if len(self.filtered_results) >= max_keywords: break`
CapReached(fr) == Len(fr) >= NUMBER_OF_KEYWORDS

\* The mutant: the generic-term regexes are not consulted.
Level2RouteKeepsGeneric(c, ev) ==
    IF Len(c) < 2 \/ c[2] = <<>> THEN "skip"
    ELSE IF check_desc(ev) THEN "filtered"
    ELSE "neglected"

\* What the body of level_2's loop does with candidate c: "skip" (an empty
\* or a generic keyword), "filtered" or "neglected"
Level2Route(c, ev) ==
    IF Len(c) < 2 \/ c[2] = <<>> \/ find_genericwords(c[2]) THEN "skip"
    ELSE IF check_desc(ev) THEN "filtered"
    ELSE "neglected"

\* `for i in results` from candidate i on, with webs[i] what the web gives
\* for candidate i: <<filtered_results, neglected_results>> when it ends
RECURSIVE Level2Loop(_, _, _, _, _)
Level2Loop(candidates, webs, i, fr, nr) ==
    IF i > Len(candidates) \/ CapReached(fr) THEN <<fr, nr>>
    ELSE LET route == Level2Route(candidates[i], webs[i])
         IN  Level2Loop(candidates, webs, i + 1,
                        IF route = "filtered" THEN Append(fr, candidates[i]) ELSE fr,
                        IF route = "neglected" THEN Append(nr, candidates[i]) ELSE nr)

\* The mutant: the two lists are not emptied when a run starts.
L2StartKeepsLists ==
    /\ l2_pc = "idle"
    /\ \E r \in Level2Inputs :
        /\ l2_results' = r
        /\ l2_pc' = IF r = <<>> THEN "idle" ELSE "loop"
    /\ l2_i' = 1
    /\ l2_web' = "none"
    /\ l2_verdicts' = <<>>
    /\ l2_ret' = <<>>
    /\ UNCHANGED <<analyserVars, exceptL2>>

\* level_2 is entered; with no results it returns [] at once and resets nothing
L2Start ==
    /\ l2_pc = "idle"
    /\ \E r \in Level2Inputs :
        /\ l2_results' = r
        /\ IF r = <<>>
           THEN /\ l2_pc' = "idle"
                /\ UNCHANGED <<filtered_results, neglected_results>>
           ELSE /\ l2_pc' = "loop"
                /\ filtered_results' = <<>>
                /\ neglected_results' = <<>>
    /\ l2_i' = 1
    /\ l2_web' = "none"
    /\ l2_verdicts' = <<>>
    /\ l2_ret' = <<>>
    /\ UNCHANGED <<initial_results, additional_results, exceptL2>>

\* one turn of `for i in results`
L2Step ==
    /\ l2_pc = "loop"
    /\ l2_i <= Len(l2_results)
    /\ ~CapReached(filtered_results)
    /\ \E ev \in WebBehaviours :
        LET c == l2_results[l2_i]
            route == Level2Route(c, ev)
        IN  /\ filtered_results' =
                 IF route = "filtered" THEN Append(filtered_results, c)
                 ELSE filtered_results
            /\ neglected_results' =
                 IF route = "neglected" THEN Append(neglected_results, c)
                 ELSE neglected_results
            /\ l2_web' = IF route = "skip" THEN "none" ELSE CheckDescFrom(ev, 1)
            /\ l2_verdicts' = Append(l2_verdicts, check_desc(ev))
    /\ l2_i' = l2_i + 1
    /\ UNCHANGED <<l2_pc, l2_results, l2_ret, initial_results, additional_results, exceptL2>>

\* the loop is over (the candidates are exhausted or the cap is reached)
L2Return ==
    /\ l2_pc = "loop"
    /\ l2_i > Len(l2_results) \/ CapReached(filtered_results)
    /\ l2_ret' = filtered_results
    /\ l2_pc' = "idle"
    /\ l2_i' = 1
    /\ l2_web' = "none"
    /\ UNCHANGED <<l2_results, l2_verdicts, analyserVars, exceptL2>>

-----------------------------------------------------------------------------
(* LLM.__list_format and LLM.keyword_completion                            *)
(*                                                                         *)
(* A reply of the model is the sequence of its items, the pieces between   *)
(* commas and newlines.  Inside an item ":" and "-" are the colon and the  *)
(* " - " separator, and "1." and "2." are ordinals.                        *)

\* a word of 61 characters
LongWord == "pneumonoultramicroscopicsilicovolcanoconiosispneumonoultramic"

\* the length limit of an item, `len(item) > 60`
MaxItemLength == 60

WordLen(w) ==
    CASE w = LongWord -> 61
      [] w \in {"a", ":", "-"} -> 1
      [] w \in {"1.", "2."} -> 2
      [] w \in {"cnn", "svm", "the", "are"} -> 3
      [] w \in {"most", "Most"} -> 4
      [] w \in {"kernel"} -> 6
      [] w \in {"xgboost", "booster", "Machine"} -> 7
      [] w \in {"learning", "relevant"} -> 8
      [] OTHER -> 5

\* len(item) of an item written with one space between its words
RECURSIVE TextLen(_)
TextLen(t) ==
    IF t = <<>> THEN 0
    ELSE IF Len(t) = 1 THEN WordLen(t[1])
    ELSE WordLen(Head(t)) + 1 + TextLen(Tail(t))

\* item.split(sep)[0]: what stands before the first sep
RECURSIVE SplitFirst(_, _)
SplitFirst(t, sep) ==
    IF t = <<>> \/ Head(t) = sep THEN <<>>
    ELSE <<Head(t)>> \o SplitFirst(Tail(t), sep)

\* item.split(" - ")[0] of a stripped item: the dash separates only where a
\* word stands on each side of it
SplitDash(t) ==
    IF \E k \in 2..(Len(t) - 1) : t[k] = "-"
    THEN LET first == CHOOSE k \in 2..(Len(t) - 1) :
                         /\ t[k] = "-"
                         /\ \A m \in 2..(k - 1) : t[m] # "-"
         IN  SubSeq(t, 1, first - 1)
    ELSE t

Ordinals == {"1.", "2."}

\* re.match(r"\d+\.\s*(.*)", item): one leading ordinal is taken off
StripOrdinal(t) == IF t # <<>> /\ Head(t) \in Ordinals THEN Tail(t) ELSE t

\* The mutant: the length of an item is not looked at.
FormatItemAnyLength(raw) ==
    LET item == SplitDash(SplitFirst(raw, ":"))
    IN  IF \/ item = <<>>
           \/ IsSubstring(<<"most", "relevant">>, LowerText(item))
        THEN <<>>
        ELSE IF StripOrdinal(item) = <<>> THEN <<>>
        ELSE <<StripOrdinal(item)>>

\* one item of the reply: the cleaned item in a list, or no item
FormatItem(raw) ==
    LET item == SplitDash(SplitFirst(raw, ":"))
    IN  IF \/ item = <<>>
           \/ IsSubstring(<<"most", "relevant">>, LowerText(item))
           \/ TextLen(item) > MaxItemLength
        THEN <<>>
        ELSE IF StripOrdinal(item) = <<>> THEN <<>>
        ELSE <<StripOrdinal(item)>>

RECURSIVE list_format(_)
list_format(response) ==
    IF response = <<>> THEN <<>>
    ELSE FormatItem(Head(response)) \o list_format(Tail(response))

ReplyItems ==
    { <<"1.", "cnn">>, <<"xgboost", ":", "a", "booster">>, <<"Machine", "learning">>,
      <<"the", "most", "relevant", "are">>, <<"svm", "-", "kernel">>, <<>>,
      <<LongWord>>, <<"2.">> }

\* What LLM.generate gives: <<"fail">> (the model raised or returned None)
\* or <<"ok", reply>>
GenerateOutcomes ==
    {<<"fail">>} \cup
    { <<"ok", reply>> : reply \in UNION { [1..n -> ReplyItems] : n \in 0..MaxReplyItems } }

RECURSIVE NonEmptyTexts(_)
NonEmptyTexts(ks) ==
    IF ks = <<>> THEN <<>>
    ELSE IF Head(ks) = <<>> THEN NonEmptyTexts(Tail(ks))
    ELSE <<Head(ks)>> \o NonEmptyTexts(Tail(ks))

\* keyword_completion's LLMResponse as <<success, data>>; gen is what
\* generate gives when it is called
keyword_completion(keywords, gen) ==
    IF NonEmptyTexts(keywords) = <<>> THEN <<TRUE, <<>>>>
    ELSE IF gen[1] = "fail" THEN <<FALSE, <<>>>>
    ELSE <<TRUE, list_format(gen[2])>>

-----------------------------------------------------------------------------
(* Analyser.level_2_alt                                                    *)

\* the 5 of `list_of_keywords[:5]`
FallbackSize == 5

RECURSIVE DropGeneric(_)
DropGeneric(ks) ==
    IF ks = <<>> THEN <<>>
    ELSE IF find_genericwords(Head(ks)) THEN DropGeneric(Tail(ks))
    ELSE <<Head(ks)>> \o DropGeneric(Tail(ks))

\* The mutant: no fallback, a failed keyword filter leaves no keywords.
AltFallbackEmpty(list_of_keywords) == <<>>

\* `keywords = list_of_keywords[:5]  # Fallback to top 5`
AltFallback(list_of_keywords) ==
    SubSeq(list_of_keywords, 1, Min(FallbackSize, Len(list_of_keywords)))

\* level_2_alt(results): llm is <<"raise">> when the call of
\* keyword_completion raises, and otherwise what generate gives inside it
level_2_alt(results, llm) ==
    LET list_of_keywords == [k \in 1..Len(results) |-> results[k][2]]
        response == keyword_completion(list_of_keywords, llm)
    IN  IF results = <<>> THEN <<>>
        ELSE IF llm[1] = "raise" THEN <<>>
        ELSE IF response[1] THEN DropGeneric(response[2])
        ELSE DropGeneric(AltFallback(list_of_keywords))

\* how the keyword filter answered: "raise", "failure" or "success"
AltAnswer(results, llm) ==
    IF llm[1] = "raise" THEN "raise"
    ELSE IF keyword_completion([k \in 1..Len(results) |-> results[k][2]], llm)[1]
         THEN "success"
    ELSE "failure"

\* one call of level_2_alt; it reads and writes no field of the Analyser
AltCall ==
    /\ alt_llm = "none"
    /\ \E r \in Level2Inputs \ {<<>>} : \E llm \in GenerateOutcomes \cup {<<"raise">>} :
        /\ alt_results' = r
        /\ alt_llm' = AltAnswer(r, llm)
        /\ alt_ret' = level_2_alt(r, llm)
    /\ UNCHANGED <<analyserVars, exceptAlt>>

-----------------------------------------------------------------------------
(* Analyser.level_3                                                        *)

SearchPrefixes ==
    << <<"Security", "Attacks", "on">>,
       <<"Inference", "time", "attacks", "on">>,
       <<"Training", "time", "attacks", "on">> >>

\* paper records [title, abstract, url] as get_info builds them
PaperA == <<"title A", "abstract A", "url A">>
PaperB == <<"title B", "abstract B", "url B">>

\* What scraper.get_info does on one query: it raises, or it returns a
\* list of paper records (empty when nothing was found or the search
\* failed inside it)
ScraperOutcomes ==
    { <<"raise">>, <<"ok", <<>>>>, <<"ok", <<PaperA>>>>, <<"ok", <<PaperA, PaperB>>>> }

\* the combined candidates of the model: two keywords and an empty text
Level3Candidates == { <<95, <<"cnn">>>>, <<90, <<"xgboost">>>>, <<90, T_empty>> }

Level3Inputs == UNION { [1..n -> Level3Candidates] : n \in 1..MaxKeywords }

\* every query level_3 can issue in the model
Level3Queries ==
    { SearchPrefixes[i] \o c[2] : i \in 1..Len(SearchPrefixes),
                                   c \in {x \in Level3Candidates : x[2] # <<>>} }

\* The mutant: a search that raises leaves no entry for its keyword.
SearchCellOmitsOnError(search_prefix, c, world) ==
    IF Len(c) < 2 \/ c[2] = <<>> THEN << <<>> >>
    ELSE IF world[search_prefix \o c[2]][1] = "raise" THEN <<>>
    ELSE << world[search_prefix \o c[2]][2] >>

\* What one turn of the inner loop appends to `objects`: the result of the
\* query, and [] for an element without a keyword, an empty keyword or a
\* search that raises
SearchCell(search_prefix, c, world) ==
    IF Len(c) < 2 \/ c[2] = <<>> THEN << <<>> >>
    ELSE IF world[search_prefix \o c[2]][1] = "raise" THEN << <<>> >>
    ELSE << world[search_prefix \o c[2]][2] >>

\* `for j in range(len(results))`, from candidate j on
RECURSIVE SearchRow(_, _, _, _)
SearchRow(search_prefix, results, world, j) ==
    IF j > Len(results) THEN <<>>
    ELSE SearchCell(search_prefix, results[j], world)
            \o SearchRow(search_prefix, results, world, j + 1)

\* `for i, search_prefix in enumerate(prefix)`, from prefix i on
RECURSIVE SearchRows(_, _, _)
SearchRows(results, world, i) ==
    IF i > Len(SearchPrefixes) THEN <<>>
    ELSE <<SearchRow(SearchPrefixes[i], results, world, 1)>>
            \o SearchRows(results, world, i + 1)

level_3(results, world) ==
    IF results = <<>> THEN <<>> ELSE SearchRows(results, world, 1)

\* one call of level_3; it reads and writes no field of the Analyser
L3Call ==
    /\ l3_pc = "idle"
    /\ \E r \in Level3Inputs : \E world \in [Level3Queries -> ScraperOutcomes] :
        /\ l3_results' = r
        /\ l3_world' = world
        /\ l3_ret' = level_3(r, world)
    /\ l3_pc' = "done"
    /\ UNCHANGED <<analyserVars, exceptL3>>

-----------------------------------------------------------------------------
(* browser.get_page and Analyser.__find_attack_type                        *)

\* How a page fetch goes: "no_page" (check_link fails, the load times out
\* or the driver fails: get_page returns "None"), "error" (any other
\* exception, which get_page lets through), or the page source
get_page(fetch) ==
    CASE fetch[1] = "no_page" -> <<"return", T_none>>
      [] fetch[1] = "error" -> <<"raise">>
      [] OTHER -> <<"return", fetch[2]>>

InferenceTimePatterns ==
    << {<<"adversarial", "example">>, <<"adversarialexample">>},
       {<<"evasion">>},
       {<<"privacy", "attack">>},
       {<<"membership", "inference">>, <<"membershipinference">>},
       {<<"model", "inversion">>} >>

TrainingTimePatterns ==
    << {<<"training", "time">>, <<"trainingtime">>},
       {<<"poisoning">>},
       {<<"data", "manipulation">>, <<"datamanipulation">>} >>

\* The mutant: the training-time patterns are tried first.
FindAttackTypeTrainingFirst(text) ==
    IF text = <<>> THEN -1
    ELSE IF regex_search(text, TrainingTimePatterns) THEN 1
    ELSE IF regex_search(text, InferenceTimePatterns) THEN 0
    ELSE -1

\* 0 inference time, 1 training time, -1 neither; text is <<>> for a page
\* with no text
find_attack_type(text) ==
    IF text = <<>> THEN -1
    ELSE IF regex_search(text, InferenceTimePatterns) THEN 0
    ELSE IF regex_search(text, TrainingTimePatterns) THEN 1
    ELSE -1

ClassifierWords ==
    {"membership", "inference", "data", "poisoning", "Evasion", "training", "time", "attack"}

ClassifierPages == UNION { [1..n -> ClassifierWords] : n \in 0..MaxPageWords }

\* one call of the classifier on a page
Classify ==
    /\ cls_pc = "idle"
    /\ \E page \in ClassifierPages :
        /\ cls_page' = page
        /\ cls_label' = find_attack_type(page)
    /\ cls_pc' = "done"
    /\ UNCHANGED <<analyserVars, exceptCls>>

-----------------------------------------------------------------------------
(* Analyser.level_4                                                        *)

\* a record with fewer than 3 fields
ShortPaper == <<"title S", "abstract S">>

\* the fewest fields of a record level_4 classifies, `len(paper_info) < 3`
MinPaperFields == 3

FetchOutcomes ==
    { <<"no_page">>, <<"error">>,
      <<"source", <<"membership", "inference">>>>,
      <<"source", <<"data", "poisoning">>>>,
      <<"source", <<"deep", "learning">>>> }

PaperUrls == {PaperA[3], PaperB[3]}

\* the paper lists of one [prefix][keyword] position
Level4Cells == { <<>>, <<PaperA, ShortPaper>>, <<PaperB>> }

\* the structures level_4 is given: one row per search prefix, n keyword
\* positions per row
Level4Inputs ==
    UNION { [1..Len(SearchPrefixes) -> [1..n -> Level4Cells]] : n \in 1..MaxKeywords }

AttackLabel(paper_type) == IF paper_type = 0 THEN "Attack Type 0" ELSE "Attack Type 1"

\* What the body of the innermost loop does with one record:
\* <<what it appends to filtered_results, what it appends to rejected_results[i][j]>>
ClassifyPaper(paper_info, world) ==
    IF Len(paper_info) < MinPaperFields THEN << <<>>, <<>> >>
    ELSE LET got == get_page(world[paper_info[3]])
         IN  IF got[1] = "raise" THEN << <<>>, <<>> >>
             ELSE IF find_attack_type(got[2]) \in {0, 1}
                  THEN << <<Append(paper_info, AttackLabel(find_attack_type(got[2])))>>, <<>> >>
             ELSE << <<>>, <<paper_info>> >>

\* `for k in range(len(results[i][j]))`, from record k on:
\* <<filtered_results, rejected_results[i][j]>>
RECURSIVE ClassifyCell(_, _, _)
ClassifyCell(cell, world, k) ==
    IF k > Len(cell) THEN << <<>>, <<>> >>
    ELSE LET one == ClassifyPaper(cell[k], world)
             rest == ClassifyCell(cell, world, k + 1)
         IN  << one[1] \o rest[1], one[2] \o rest[2] >>

NonEmptyCell(cell) == cell # <<>>

\* The mutant: a position that ends with no paper is left out of its row.
level_4OmitsEmpty(results, world) ==
    << [i \in 1..Len(results) |->
          SelectSeq([j \in 1..Len(results[i]) |-> ClassifyCell(results[i][j], world, 1)[1]],
                    NonEmptyCell)],
       [i \in 1..Len(results) |->
          SelectSeq([j \in 1..Len(results[i]) |-> ClassifyCell(results[i][j], world, 1)[2]],
                    NonEmptyCell)] >>

\* level_4(results): <<results, rejected_results>>
level_4(results, world) ==
    << [i \in 1..Len(results) |->
          [j \in 1..Len(results[i]) |-> ClassifyCell(results[i][j], world, 1)[1]]],
       [i \in 1..Len(results) |->
          [j \in 1..Len(results[i]) |-> ClassifyCell(results[i][j], world, 1)[2]]] >>

\* one call of level_4; it reads and writes no field of the Analyser
L4Call ==
    /\ l4_pc = "idle"
    /\ \E r \in Level4Inputs \cup {<<>>} : \E world \in [PaperUrls -> FetchOutcomes] :
        /\ l4_results' = r
        /\ l4_world' = world
        /\ attack_papers' = level_4(r, world)[1]
        /\ rejected_papers' = level_4(r, world)[2]
    /\ l4_pc' = "done"
    /\ UNCHANGED <<analyserVars, exceptL4>>

-----------------------------------------------------------------------------
(* safe_file_operations, create_row                                        *)

\* A CSV field is a text: a sequence of lines.
fieldnames ==
    << <<"Submission Number">>, <<"Device">>, <<"Company">>, <<"Category">>,
       <<"Date of Approval">>, <<"Level 1 - Algorithms Found">>,
       <<"Level 2 - Filtered Keywords">>, <<"Level 4 - Input Format">>,
       <<"Alt Keywords Level 2">>, <<"Security Attacks Found">> >>

\* the number of analysis fields of a row, `for i in range(4)`
ResultFieldCount == 4

\* What process_document hands to create_row: <<results, search_results>>,
\* the one-element early return or the four analysis strings; "raise" is an
\* exception while the row is being built
DocumentOutcomes ==
    { <<"raise">>,
      <<"ok", <<"File not found">>, <<"No search results available">>>>,
      <<"ok", <<"Level 1", "Level 2", "Level 4", "Alt">>, <<"No security vulnerabilities found">>>> }

\* how writer.writerow followed by csvfile.flush goes
WriteOutcomes == {"written", "writerow_raises", "flush_raises"}

\* The mutant: analysis fields that are missing are left out of the row.
ResultFieldsNoFill(results) ==
    [i \in 1..(IF Len(results) < ResultFieldCount THEN Len(results) ELSE ResultFieldCount)
        |-> <<results[i]>>]

\* the analysis fields of a row
ResultFields(results) ==
    [i \in 1..ResultFieldCount |->
        IF i <= Len(results) THEN <<results[i]>> ELSE <<"No data available">>]

csv_row(index, results, search_results) ==
    << <<index>>, <<"Device">>, <<"Company">>, <<"Panel (lead)">>,
       <<"Date of Final Decision">> >>
        \o ResultFields(results)
        \o << IF search_results # <<>> THEN search_results
              ELSE <<"No security attacks found">> >>

error_row(index) ==
    << <<index>>, <<"Error">>, <<"Error">>, <<"Error">>, <<"Error">>,
       <<"Processing failed">>, <<"Error in analysis">>, <<"Error in analysis">>,
       <<"Error in analysis">>, <<"No attacks found due to processing error">> >>

\* the rows that writerow followed by flush leaves in the file
Written(row, w) == IF w = "writerow_raises" THEN <<>> ELSE <<row>>

\* create_row(index, row): <<the rows it appends to the CSV, its return value>>
\* doc is what process_document gives, w how the row is written, we how
\* the error row is written
create_row(index, doc, w, we) ==
    IF doc[1] = "ok" /\ w = "written"
    THEN << <<csv_row(index, doc[2], doc[3])>>, TRUE >>
    ELSE << (IF doc[1] = "ok" THEN Written(csv_row(index, doc[2], doc[3]), w) ELSE <<>>)
                \o Written(error_row(index), we),
            FALSE >>

-----------------------------------------------------------------------------
(* process_range_pdfs, process_from_file                                   *)

\* A document of the requested sequence: whether its PDF is there and
\* whether its input record can be read (in file mode the Excel sheet has a
\* row for it, in range mode reading the row does not raise)
BatchDocs == [pdf : BOOLEAN, rec : BOOLEAN]

\* `if processed % 5 == 0`
FlushEvery == 5

\* The mutant: a failed document ends the loop.
AfterFailureStops(i, n) == n + 1

\* the loop position after a document that failed: `continue`
AfterFailure(i, n) == i + 1

BatchStart ==
    /\ batch_pc = "idle"
    /\ \E mode \in {"range", "file"} : \E n \in 1..MaxDocs : \E docs \in [1..n -> BatchDocs] :
        /\ batch_mode' = mode
        /\ batch_docs' = docs
    /\ batch_pc' = "loop"
    /\ batch_i' = 1
    /\ processed' = 0
    /\ failed' = 0
    /\ invoked' = {}
    /\ failures' = {}
    /\ UNCHANGED <<csv_rows, analyserVars, exceptBatch>>

\* one turn of the loop for a document that is skipped (no PDF, no Excel
\* record) or whose row cannot be read (the except branch)
BatchSkip ==
    /\ batch_pc = "loop"
    /\ batch_i <= Len(batch_docs)
    /\ ~(batch_docs[batch_i].pdf /\ batch_docs[batch_i].rec)
    /\ failed' = failed + 1
    /\ failures' = failures \cup {batch_i}
    /\ batch_i' = AfterFailure(batch_i, Len(batch_docs))
    /\ UNCHANGED <<csv_rows, batch_pc, batch_mode, batch_docs, processed, invoked,
                   analyserVars, exceptBatch>>

\* one turn of the loop that calls create_row, then flushes when
\* `processed % 5 == 0`; a flush that raises lands in the except branch
BatchCreateRow ==
    /\ batch_pc = "loop"
    /\ batch_i <= Len(batch_docs)
    /\ batch_docs[batch_i].pdf /\ batch_docs[batch_i].rec
    /\ invoked' = invoked \cup {batch_i}
    /\ \E doc \in DocumentOutcomes : \E w, we \in WriteOutcomes : \E flush_ok \in BOOLEAN :
        LET out == create_row(ToString(batch_i), doc, w, we)
            done == IF out[2] THEN processed + 1 ELSE processed
            flush_raised == done % FlushEvery = 0 /\ ~flush_ok
        IN  /\ csv_rows' = csv_rows \o out[1]
            /\ processed' = done
            /\ failed' = failed + (IF out[2] THEN 0 ELSE 1) + (IF flush_raised THEN 1 ELSE 0)
            /\ failures' = IF out[2] /\ ~flush_raised THEN failures ELSE failures \cup {batch_i}
            /\ batch_i' = IF out[2] /\ ~flush_raised THEN batch_i + 1
                          ELSE AfterFailure(batch_i, Len(batch_docs))
    /\ UNCHANGED <<batch_pc, batch_mode, batch_docs, analyserVars, exceptBatch>>

\* the loop is over: the final flush and the summary
BatchFinish ==
    /\ batch_pc = "loop"
    /\ batch_i > Len(batch_docs)
    /\ batch_pc' = "done"
    /\ UNCHANGED <<csv_rows, batch_mode, batch_docs, batch_i, processed, failed,
                   invoked, failures, analyserVars, exceptBatch>>

-----------------------------------------------------------------------------
(* Analyser.return_results, process_search_results, process_document       *)

\* One answer string of return_results: its numbered lines
\* <<point, keyword, score>>, or the "No results found for Level n" text
ResultBlock(result_list, level) ==
    IF result_list = <<>> THEN <<"none", level>>
    ELSE <<"lines", [k \in 1..Len(result_list) |->
                        <<k, result_list[k][2], result_list[k][1]>>]>>

return_results ==
    << ResultBlock(initial_results, 1), ResultBlock(filtered_results, 2),
       ResultBlock(additional_results, 3) >>

\* alt_keywords_string: the numbered keywords, or "No alternative keywords found"
AltBlock(keywords) ==
    IF keywords = <<>> THEN <<"none", "alt">>
    ELSE <<"lines", [k \in 1..Len(keywords) |-> <<k, keywords[k]>>]>>

\* process_search_results from position [i][j] on: one entry, the query
\* followed by the papers, for every position with papers and an answer
RECURSIVE SearchEntries(_, _, _, _)
SearchEntries(papers, answers, i, j) ==
    IF i > Len(papers) \/ i > Len(SearchPrefixes) THEN <<>>
    ELSE IF j > Len(papers[i]) THEN SearchEntries(papers, answers, i + 1, 1)
    ELSE IF j > Len(answers) \/ papers[i][j] = <<>>
         THEN SearchEntries(papers, answers, i, j + 1)
    ELSE << <<"entry", SearchPrefixes[i] \o answers[j][2], papers[i][j]>> >>
            \o SearchEntries(papers, answers, i, j + 1)

process_search_results(papers, answers) ==
    IF papers = <<>> \/ answers = <<>> THEN <<>>
    ELSE SearchEntries(papers, answers, 1, 1)

\* the documents of the model: what the question-answering pipeline gives
\* for the one paragraph, what the Medical Futurist sheet names, how the
\* keyword filter, the web, the paper search and the page fetch behave
DocQAResponses == {NoAnswer, <<90, T_xgbc>>}
DocAlgorithms == {T_empty, T_cnn, T_ml}
DocLLMOutcomes == {<<"fail">>, <<"ok", <<<<"1.", "cnn">>>>>>}
DocWebEvents == {<<"raise">>, <<"page", <<"deep", "learning">>>>, <<"page", <<"cooking">>>>}
DocWebBehaviours == { [p \in 1..SampledPages |-> e] : e \in DocWebEvents }
DocScraperOutcomes == {<<"raise">>, <<"ok", <<PaperA>>>>}
DocFetchOutcomes == {<<"source", <<"membership", "inference">>>>, <<"source", <<"deep", "learning">>>>}

NothingProduced == [l1 |-> {}, l2 |-> {}, add |-> {}]

Elements(list) == {list[k] : k \in 1..Len(list)}

\* `combined_answer`: the validated candidates, then the alternative
\* keywords at score 0.9
combined_answer ==
    filtered_answer \o [k \in 1..Len(alt_keywords) |-> <<90, alt_keywords[k]>>]

\* The mutant: a level whose call gave nothing is called once more.
InvokeWithRetry(calls, level) == calls \o <<level, level>>

\* one call of a level function by process_document
Invoke(calls, level) == Append(calls, level)

\* process_document is called and returns early: no PDF, no content, or
\* an exception outside the steps
DocEarlyReturn ==
    /\ doc_pc \in {"idle", "returned"}
    /\ doc_n < MaxDocuments
    /\ \E why \in {"File not found", "No content extracted", "Processing failed"} :
        doc_results' = <<why>>
    /\ doc_search_results' = <<"No search results available">>
    /\ doc_n' = doc_n + 1
    /\ doc_pc' = "returned"
    /\ produced' = NothingProduced
    /\ UNCHANGED <<algorithm, all_answers, alt_keywords, filtered_answer, all_papers,
                   doc_attack_papers, rejections, analyserVars, seedVars, exceptDoc>>
    /\ doc_calls' = <<>>
    /\ reported_candidates' = <<>>
    /\ reported_papers' = <<>>

\* steps 1 and 2: the Medical Futurist data and the pages are there
DocStart ==
    /\ doc_pc \in {"idle", "returned"}
    /\ doc_n < MaxDocuments
    /\ \E a \in DocAlgorithms : algorithm' = a
    /\ doc_n' = doc_n + 1
    /\ doc_pc' = "level1"
    /\ doc_results' = <<>>
    /\ doc_search_results' = <<>>
    /\ produced' = NothingProduced
    /\ UNCHANGED <<all_answers, alt_keywords, filtered_answer, all_papers,
                   doc_attack_papers, rejections, analyserVars, seedVars, exceptDoc>>
    /\ doc_calls' = <<>>
    /\ reported_candidates' = <<>>
    /\ reported_papers' = <<>>

\* step 3: level_1(pages) on one paragraph
DocLevel1 ==
    /\ doc_pc = "level1"
    /\ \E q1, q2, q3, q4 \in DocQAResponses :
        /\ initial_results' =
              UniqueResults(analyse_pages(<<q1>>) \o analyse_pages(<<q2>>)
                                \o analyse_pages(<<q3>>))
        /\ additional_results' = analyse_pages(<<q4>>)
    /\ all_answers' = initial_results'
    /\ produced' = [produced EXCEPT !.l1 = Elements(initial_results'),
                                    !.add = Elements(additional_results')]
    /\ doc_pc' = "seed"
    /\ UNCHANGED <<doc_n, algorithm, alt_keywords, filtered_answer, all_papers,
                   doc_attack_papers, rejections, doc_results, doc_search_results,
                   filtered_results, neglected_results, seedVars, exceptDoc>>
    /\ doc_calls' = Invoke(doc_calls, "level_1")
    /\ UNCHANGED <<reported_candidates, reported_papers>>

\* The mutant: the algorithm is put last.
InsertSeedLast(name, answers) == Append(answers, <<100, name>>)

\* `all_answers.insert(0, (1.0, algorithm))`
InsertSeed(name, answers) == <<<<100, name>>>> \o answers

\* step 4: the Medical Futurist algorithm is put first; all_answers is the
\* list initial_results itself, so the insert shows in both
DocSeed ==
    /\ doc_pc = "seed"
    /\ IF algorithm # <<>> /\ all_answers # <<>> /\ ~check_presence(algorithm, all_answers)
       THEN /\ all_answers' = InsertSeed(algorithm, all_answers)
            /\ initial_results' = all_answers'
            /\ produced' = [produced EXCEPT !.l1 = @ \cup {<<100, algorithm>>}]
            /\ seeded' = TRUE
       ELSE UNCHANGED <<all_answers, initial_results, produced, seeded>>
    /\ UNCHANGED doc_webs
    /\ doc_pc' = "alt"
    /\ UNCHANGED <<doc_n, algorithm, alt_keywords, filtered_answer, all_papers,
                   doc_attack_papers, rejections, doc_results, doc_search_results,
                   filtered_results, additional_results, neglected_results, exceptDoc>>
    /\ UNCHANGED traceVars

\* step 5: level_2_alt(all_answers) if all_answers else []
DocLevel2Alt ==
    /\ doc_pc = "alt"
    /\ \E llm \in DocLLMOutcomes :
        alt_keywords' = IF all_answers # <<>> THEN level_2_alt(all_answers, llm) ELSE <<>>
    /\ doc_pc' = "level2"
    /\ UNCHANGED <<doc_n, algorithm, all_answers, filtered_answer, all_papers,
                   doc_attack_papers, rejections, doc_results, doc_search_results,
                   produced, analyserVars, seedVars, exceptDoc>>
    /\ doc_calls' = IF all_answers # <<>> THEN Invoke(doc_calls, "level_2_alt") ELSE doc_calls
    /\ UNCHANGED <<reported_candidates, reported_papers>>

\* step 6: level_2(all_answers) if all_answers else []
DocLevel2 ==
    /\ doc_pc = "level2"
    /\ IF all_answers # <<>>
       THEN \E webs \in [1..Len(all_answers) -> DocWebBehaviours] :
                LET out == Level2Loop(all_answers, webs, 1, <<>>, <<>>)
                IN  /\ filtered_results' = out[1]
                    /\ neglected_results' = out[2]
                    /\ filtered_answer' = out[1]
                    /\ produced' = [produced EXCEPT !.l2 = Elements(out[1])]
                    /\ doc_webs' = webs
       ELSE /\ filtered_answer' = <<>>
            /\ UNCHANGED <<filtered_results, neglected_results, produced, doc_webs>>
    /\ UNCHANGED seeded
    /\ doc_pc' = "level3"
    /\ UNCHANGED <<doc_n, algorithm, all_answers, alt_keywords, all_papers,
                   doc_attack_papers, rejections, doc_results, doc_search_results,
                   initial_results, additional_results, exceptDoc>>
    /\ doc_calls' = IF all_answers # <<>> THEN Invoke(doc_calls, "level_2") ELSE doc_calls
    /\ UNCHANGED <<reported_candidates, reported_papers>>

\* steps 7 and 8: level_3(combined_answer) if combined_answer else []
DocLevel3 ==
    /\ doc_pc = "level3"
    /\ \E found \in DocScraperOutcomes :
        all_papers' =
            IF combined_answer # <<>>
            THEN level_3(combined_answer,
                         [q \in {SearchPrefixes[i] \o combined_answer[j][2] :
                                    i \in 1..Len(SearchPrefixes),
                                    j \in 1..Len(combined_answer)} |-> found])
            ELSE <<>>
    /\ doc_pc' = "level4"
    /\ UNCHANGED <<doc_n, algorithm, all_answers, alt_keywords, filtered_answer,
                   doc_attack_papers, rejections, doc_results, doc_search_results,
                   produced, analyserVars, seedVars, exceptDoc>>
    /\ doc_calls' = IF combined_answer # <<>> THEN Invoke(doc_calls, "level_3") ELSE doc_calls
    /\ UNCHANGED <<reported_candidates, reported_papers>>

\* step 9: level_4(all_papers) if all_papers else ([], [])
DocLevel4 ==
    /\ doc_pc = "level4"
    /\ \E page \in DocFetchOutcomes :
        LET out == level_4(all_papers, [u \in PaperUrls |-> page])
        IN  /\ doc_attack_papers' = IF all_papers # <<>> THEN out[1] ELSE <<>>
            /\ rejections' = IF all_papers # <<>> THEN out[2] ELSE <<>>
    /\ doc_pc' = "report"
    /\ UNCHANGED <<doc_n, algorithm, all_answers, alt_keywords, filtered_answer,
                   all_papers, doc_results, doc_search_results, produced,
                   analyserVars, seedVars, exceptDoc>>
    /\ doc_calls' = IF all_papers # <<>> THEN Invoke(doc_calls, "level_4") ELSE doc_calls
    /\ UNCHANGED <<reported_candidates, reported_papers>>

\* steps 10 and 11 and the return: the four result strings and the search
\* results; the locals end with the call
DocReport ==
    /\ doc_pc = "report"
    /\ doc_results' = return_results \o <<AltBlock(alt_keywords)>>
    /\ LET found ==
              process_search_results(doc_attack_papers, filtered_answer)
                \o (IF rejections # <<>>
                    THEN <<<<"Rejected Papers:">>>>
                            \o process_search_results(rejections, filtered_answer)
                    ELSE <<>>)
       IN  doc_search_results' =
              IF found = <<>> THEN <<<<"No security vulnerabilities found">>>> ELSE found
    /\ doc_pc' = "returned"
    /\ algorithm' = <<>>
    /\ all_answers' = <<>>
    /\ alt_keywords' = <<>>
    /\ filtered_answer' = <<>>
    /\ all_papers' = <<>>
    /\ doc_attack_papers' = <<>>
    /\ rejections' = <<>>
    /\ seeded' = FALSE
    /\ doc_webs' = <<>>
    /\ UNCHANGED <<doc_n, produced, analyserVars, exceptDoc>>
    /\ reported_candidates' = combined_answer
    /\ reported_papers' = doc_attack_papers
    /\ UNCHANGED doc_calls

-----------------------------------------------------------------------------
(* The level functions as the Orchestrator calls them: return or raise     *)

Raised == <<"raise">>
Returned(value) == <<"return", value>>

\* The mutant: the outer `except Exception` lets the exception through.
TryExceptReraises(body, fallback) == body

\* `try: body  except Exception: return fallback`
TryExcept(body, fallback) ==
    IF body[1] = "raise" THEN Returned(fallback) ELSE body

\* an element that is None where a (score, text) tuple is expected: len()
\* of it raises TypeError
NoneElement == <<>>

HasNone(candidates) == \E k \in 1..Len(candidates) : candidates[k] = NoneElement

\* the arguments of the calls: empty, well formed, and with None elements
CallCandidates == { <<95, T_cnn>>, <<90, T_ml>>, NoneElement }
CallLists == UNION { [1..n -> CallCandidates] : n \in 0..MaxKeywords }
CallPages == {<<>>} \cup [1..4 -> DocQAResponses]
CallWebs == { [p \in 1..SampledPages |-> e] :
                e \in {<<"raise">>, <<"page", <<"deep", "learning">>>>, <<"page", <<"cooking">>>>} }
CallLLMOutcomes == { <<"raise">>, <<"fail">>, <<"ok", <<<<"1.", "cnn">>>>>> }
CallScraperOutcomes == { <<"raise">>, <<"ok", <<>>>>, <<"ok", <<PaperA>>>> }
CallFetchOutcomes == { <<"error">>, <<"no_page">>, <<"source", <<"membership", "inference">>>> }
CallStructures == { r \in Level4Inputs : Len(r[1]) = 1 }

\* The mutant: the answers of question 4 are pooled with the others.
PooledWithQuestion4(responses) ==
    analyse_pages(<<responses[1]>>) \o analyse_pages(<<responses[2]>>)
        \o analyse_pages(<<responses[3]>>) \o analyse_pages(<<responses[4]>>)

\* `answer` after questions 1, 2 and 3 on one paragraph
Pooled(responses) ==
    analyse_pages(<<responses[1]>>) \o analyse_pages(<<responses[2]>>)
        \o analyse_pages(<<responses[3]>>)

\* level_1(pages): responses is <<>> for an empty paragraph list, and
\* otherwise what the pipeline gives for the one paragraph on questions 1..4
Level1Body(responses) ==
    IF responses = <<>> THEN Returned(<<>>)
    ELSE Returned(UniqueResults(Pooled(responses)))

\* level_2(results): a None element raises inside the loop's try, which
\* skips it
Level2Body(candidates, web) ==
    IF candidates = <<>> THEN Returned(<<>>)
    ELSE Returned(Level2Loop(candidates, [k \in 1..Len(candidates) |-> web], 1, <<>>, <<>>)[1])

\* level_2_alt(results): a None element raises in the list comprehension,
\* and keyword_completion may raise
Level2AltBody(candidates, llm) ==
    IF candidates = <<>> THEN Returned(<<>>)
    ELSE IF HasNone(candidates) \/ llm[1] = "raise" THEN Raised
    ELSE Returned(level_2_alt(candidates, llm))

\* level_3(results): a None element raises inside the inner try; its
\* handler formats `keyword`, which is unbound when the very first element
\* raised, so the handler raises in its turn
Level3Body(candidates, found) ==
    IF candidates = <<>> THEN Returned(<<>>)
    ELSE IF candidates[1] = NoneElement THEN Raised
    ELSE Returned(SearchRows(candidates,
                             [q \in {SearchPrefixes[i] \o c[2] :
                                        i \in 1..Len(SearchPrefixes),
                                        c \in {x \in CallCandidates : x # NoneElement}}
                                 |-> found], 1))

\* whether position <<i, j>> comes before position bad in level_4's loops
Before(i, j, bad) == i < bad[1] \/ (i = bad[1] /\ j < bad[2])

\* `results` when level_4 stops at the None cell at position bad: the
\* positions before it hold their attack papers, the others are untouched
PartlyClassified(structure, bad, world) ==
    [i \in 1..Len(structure) |->
        [j \in 1..Len(structure[i]) |->
            IF Before(i, j, bad) THEN ClassifyCell(structure[i][j], world, 1)[1]
            ELSE structure[i][j]]]

\* level_4(results): bad is the position of a cell that is None, <<0, 0>>
\* when there is none; len() of it raises outside the inner try
Level4Body(structure, bad, world) ==
    IF structure = <<>> THEN Returned(<< <<>>, <<>> >>)
    ELSE IF bad # <<0, 0>> THEN Raised
    ELSE Returned(level_4(structure, world))

CallLevel1 ==
    /\ call_pc = "idle"
    /\ \E responses \in CallPages :
        /\ call_arg' = responses
        /\ call_out' = TryExcept(Level1Body(responses), <<>>)
        /\ IF responses = <<>>
           THEN UNCHANGED <<initial_results, additional_results>>
           ELSE /\ initial_results' = Level1Body(responses)[2]
                /\ additional_results' = analyse_pages(<<responses[4]>>)
    /\ call_fn' = "level_1"
    /\ call_pc' = "done"
    /\ UNCHANGED <<filtered_results, neglected_results, exceptCall>>

CallLevel2 ==
    /\ call_pc = "idle"
    /\ \E candidates \in CallLists : \E web \in CallWebs :
        /\ call_arg' = candidates
        /\ call_out' = TryExcept(Level2Body(candidates, web), <<>>)
        /\ IF candidates = <<>>
           THEN UNCHANGED <<filtered_results, neglected_results>>
           ELSE LET out == Level2Loop(candidates, [k \in 1..Len(candidates) |-> web],
                                      1, <<>>, <<>>)
                IN  /\ filtered_results' = out[1]
                    /\ neglected_results' = out[2]
    /\ call_fn' = "level_2"
    /\ call_pc' = "done"
    /\ UNCHANGED <<initial_results, additional_results, exceptCall>>

CallLevel2Alt ==
    /\ call_pc = "idle"
    /\ \E candidates \in CallLists : \E llm \in CallLLMOutcomes :
        /\ call_arg' = <<candidates, llm>>
        /\ call_out' = TryExcept(Level2AltBody(candidates, llm), <<>>)
    /\ call_fn' = "level_2_alt"
    /\ call_pc' = "done"
    /\ UNCHANGED <<analyserVars, exceptCall>>

CallLevel3 ==
    /\ call_pc = "idle"
    /\ \E candidates \in CallLists : \E found \in CallScraperOutcomes :
        /\ call_arg' = <<candidates, found>>
        /\ call_out' = TryExcept(Level3Body(candidates, found), <<>>)
    /\ call_fn' = "level_3"
    /\ call_pc' = "done"
    /\ UNCHANGED <<analyserVars, exceptCall>>

CallLevel4 ==
    /\ call_pc = "idle"
    /\ \E structure \in CallStructures \cup {<<>>} :
       \E bad \in {<<0, 0>>} \cup {<<i, 1>> : i \in 1..Len(structure)} :
       \E page \in CallFetchOutcomes :
        LET world == [u \in PaperUrls |-> page]
        IN  /\ call_arg' = <<structure, bad, page>>
            /\ call_out' = TryExcept(Level4Body(structure, bad, world),
                                     << PartlyClassified(structure, bad, world), <<>> >>)
    /\ call_fn' = "level_4"
    /\ call_pc' = "done"
    /\ UNCHANGED <<analyserVars, exceptCall>>

-----------------------------------------------------------------------------
(* level_1 run twice on the same input                                     *)

\* the inputs of the two runs: no paragraph, or one paragraph with the
\* pipeline's response to each of the four questions
RerunInputs == {<<>>} \cup [1..4 -> QAResponses]

\* The mutant: a run adds to what the run before left.
InitialAfterKeepsOld(old, responses) ==
    IF responses = <<>> THEN old
    ELSE UniqueResults(old \o Pooled(responses))

\* self.initial_results after level_1, when it was `old` before: with no
\* paragraph level_1 returns before it assigns the field
InitialAfter(old, responses) ==
    IF responses = <<>> THEN old ELSE Level1Body(responses)[2]

\* self.additional_results after level_1, when it was `old` before
AdditionalAfter(old, responses) ==
    IF responses = <<>> THEN old ELSE analyse_pages(<<responses[4]>>)

\* what level_1 returns: a new empty list with no paragraph, and the
\* list initial_results itself otherwise
Level1Returns(after, responses) == IF responses = <<>> THEN <<>> ELSE after

\* an earlier document leaves its results on the Analyser
RerunPrior ==
    /\ rerun_pc \in {"start", "between"}
    /\ \E responses \in CallPages :
        /\ initial_results' = InitialAfter(initial_results, responses)
        /\ additional_results' = AdditionalAfter(additional_results, responses)
    /\ rerun_pc' = IF rerun_pc = "start" THEN "primed" ELSE "primed again"
    /\ UNCHANGED <<rerun_input, rerun_first, rerun_second, filtered_results,
                   neglected_results, exceptRerun>>

\* the first run
RerunFirst ==
    /\ rerun_pc \in {"start", "primed"}
    /\ \E responses \in RerunInputs :
        /\ rerun_input' = responses
        /\ initial_results' = InitialAfter(initial_results, responses)
        /\ additional_results' = AdditionalAfter(additional_results, responses)
        /\ rerun_first' = Level1Returns(initial_results', responses)
    /\ rerun_pc' = "between"
    /\ UNCHANGED <<rerun_second, filtered_results, neglected_results, exceptRerun>>

\* the second run, on the input of the first
RerunSecond ==
    /\ rerun_pc \in {"between", "primed again"}
    /\ initial_results' = InitialAfter(initial_results, rerun_input)
    /\ additional_results' = AdditionalAfter(additional_results, rerun_input)
    /\ rerun_second' = Level1Returns(initial_results', rerun_input)
    /\ rerun_pc' = "done"
    /\ UNCHANGED <<rerun_input, rerun_first, filtered_results, neglected_results,
                   exceptRerun>>

-----------------------------------------------------------------------------
(* LLM.keyword_completion on the reply as the model wrote it              *)

\* the longest reply of the model, in tokens
MaxReplyTokens == 4

\* a reply is a sequence of tokens: words, and the separators "," and "\n"
Separators == {",", "\n"}
ReplyTokens == {"1.", "cnn", ":", "-", ",", "\n", "Most", "relevant", LongWord}
RawReplies == UNION { [1..n -> ReplyTokens] : n \in 0..MaxReplyTokens }
RawOutcomes == {<<"fail">>} \cup { <<"ok", raw>> : raw \in RawReplies }

\* `response.replace("\n", ",").split(",")`
RECURSIVE SplitItems(_)
SplitItems(raw) ==
    IF \A k \in 1..Len(raw) : raw[k] \notin Separators THEN <<raw>>
    ELSE LET first == CHOOSE k \in 1..Len(raw) :
                         /\ raw[k] \in Separators
                         /\ \A m \in 1..(k - 1) : raw[m] \notin Separators
         IN  <<SubSeq(raw, 1, first - 1)>> \o SplitItems(SubSeq(raw, first + 1, Len(raw)))

\* one call of keyword_completion with one keyword, on what generate gives
CompleteCall ==
    /\ kc_pc = "idle"
    /\ \E gen \in RawOutcomes :
        /\ kc_reply' = gen
        /\ kc_out' = keyword_completion(<<T_cnn>>,
                        IF gen[1] = "fail" THEN gen ELSE <<"ok", SplitItems(gen[2])>>)
    /\ kc_pc' = "done"
    /\ UNCHANGED <<analyserVars, exceptKc>>

-----------------------------------------------------------------------------
(* scholarly_scraper.get_info                                              *)

NUMBER_OF_PAPERS == 5

\* the longest sequence of articles a search gives in the model
MaxArticles == 3

\* an article of the search: <<kind, title, abstract, pub_url>>; an article
\* of kind "no_abstract" has no 'abstract' key in its bib
Articles ==
    { <<"full", <<"attacks">>, <<"data">>, "url 1">>,
      <<"full", <<"A", "Survey">>, <<"data">>, "url 2">>,
      <<"full", <<"attacks">>, <<"a", "survey">>, "url 3">>,
      <<"full", <<"Surveys">>, <<"data">>, "url 4">>,
      <<"no_abstract", <<"attacks">>, <<>>, "url 5">> }

\* what scholarly.search_pubs gives: it raises, or the articles in order
SearchOutcomes ==
    {<<"raise">>} \cup
    { <<"ok", found>> : found \in UNION { [1..n -> Articles] : n \in 0..MaxArticles } }

\* the words of the model that hold the letters "survey" once lowered
SurveyWords == {"survey", "surveys"}

\* text.lower().find("survey") != -1
FindsSurvey(text) == \E k \in 1..Len(text) : Lower(text[k]) \in SurveyWords

\* The mutant: only the title is looked at.
CheckSurveyTitleOnly(paper) == FindsSurvey(paper[2])

\* __check_survey(paper), for a paper on which it does not raise
check_survey(paper) == FindsSurvey(paper[2]) \/ FindsSurvey(paper[3])

\* __check_survey raises KeyError: the title is clean and there is no abstract
CheckSurveyRaises(paper) == paper[1] = "no_abstract" /\ ~FindsSurvey(paper[2])

\* complete_info(search_query): the first NUMBER_OF_PAPERS articles
complete_info(found) == SubSeq(found, 1, Min(NUMBER_OF_PAPERS, Len(found)))

\* the while loop of get_info from article i on; an exception ends it with
\* what was extracted so far
RECURSIVE ExtractFrom(_, _, _)
ExtractFrom(info, i, extract) ==
    IF Len(extract) >= Min(NUMBER_OF_PAPERS, Len(info)) \/ i > Len(info) THEN extract
    ELSE IF CheckSurveyRaises(info[i]) THEN extract
    ELSE IF check_survey(info[i]) THEN ExtractFrom(info, i + 1, extract)
    ELSE ExtractFrom(info, i + 1, Append(extract, <<info[i][2], info[i][3], info[i][4]>>))

get_info(search) ==
    IF search[1] = "raise" THEN <<>> ELSE ExtractFrom(complete_info(search[2]), 1, <<>>)

\* one call of get_info
GetInfoCall ==
    /\ gi_pc = "idle"
    /\ \E search \in SearchOutcomes :
        /\ gi_search' = search
        /\ gi_extract' = get_info(search)
    /\ gi_pc' = "done"
    /\ UNCHANGED <<analyserVars, exceptGi>>

-----------------------------------------------------------------------------
(* main and cleanup_resources                                              *)

\* the most rows the runs of one session write in the model
MaxSessionRows == 6

\* The mutant: no `finally`; only the two `break`s of the menu reach the
\* cleanup.
LeaveWithoutFinally(cause) ==
    IF cause \in {"menu exit", "declined"} THEN "cleanup" ELSE "ended"

\* where main goes when its try statement is left for the given cause: the
\* `finally` clause has every way out pass through cleanup_resources
Leave(cause) == "cleanup"

\* display_system_info(): it returns, raises, or is interrupted
MainStart ==
    /\ main_pc = "start"
    /\ \E how \in {"ok", "exception", "interrupt"} :
        IF how = "ok"
        THEN /\ main_pc' = "construct"
             /\ UNCHANGED main_exit
        ELSE /\ main_pc' = Leave(how)
             /\ main_exit' = how
    /\ UNCHANGED <<main_choice, main_rows, csv_closed, cleanup_ran, analyserVars, exceptMain>>

\* Analyser_1 = Analyser()
MainConstruct ==
    /\ main_pc = "construct"
    /\ \E built \in BOOLEAN :
        IF built
        THEN /\ main_pc' = "menu"
             /\ UNCHANGED main_exit
        ELSE /\ main_pc' = Leave("no analyser")
             /\ main_exit' = "no analyser"
    /\ UNCHANGED <<main_choice, main_rows, csv_closed, cleanup_ran, analyserVars, exceptMain>>

\* get_user_input(): 1 to 3, or 4 (typed, or a KeyboardInterrupt at the
\* prompt, which get_user_input turns into 4)
MainMenu ==
    /\ main_pc = "menu"
    /\ \E inp \in 1..4 :
        /\ main_choice' = inp
        /\ IF inp = 4
           THEN /\ main_pc' = Leave("menu exit")
                /\ main_exit' = "menu exit"
           ELSE /\ main_pc' = "processing"
                /\ UNCHANGED main_exit
    /\ UNCHANGED <<main_rows, csv_closed, cleanup_ran, analyserVars, exceptMain>>

\* create_row inside the chosen analysis: writer.writerow raises ValueError
\* on a closed file, and then no row is written
MainWriteRow ==
    /\ main_pc = "processing"
    /\ main_rows < MaxSessionRows
    /\ main_rows' = IF csv_closed THEN main_rows ELSE main_rows + 1
    /\ UNCHANGED <<main_pc, main_choice, main_exit, csv_closed, cleanup_ran, analyserVars, exceptMain>>

\* the chosen analysis ends: it returns, raises, or is interrupted
MainProcessed ==
    /\ main_pc = "processing"
    /\ \E how \in {"ok", "exception", "interrupt"} :
        main_pc' = CASE how = "ok" -> "ask"
                     [] how = "exception" -> "menu"
                     [] how = "interrupt" -> "interrupted"
    /\ UNCHANGED <<main_choice, main_rows, main_exit, csv_closed, cleanup_ran, analyserVars, exceptMain>>

\* "Do you want to perform another analysis?"
MainAsk ==
    /\ main_pc = "ask"
    /\ \E how \in {"yes", "no", "exception", "interrupt"} :
        IF how = "no"
        THEN /\ main_pc' = Leave("declined")
             /\ main_exit' = "declined"
        ELSE /\ main_pc' = IF how = "interrupt" THEN "interrupted" ELSE "menu"
             /\ UNCHANGED main_exit
    /\ UNCHANGED <<main_choice, main_rows, csv_closed, cleanup_ran, analyserVars, exceptMain>>

\* the handler of KeyboardInterrupt inside the loop: "Do you want to exit
\* the system?"; what is raised at this prompt leaves the loop's try
MainInterrupted ==
    /\ main_pc = "interrupted"
    /\ \E how \in {"yes", "no", "exception", "interrupt"} :
        IF how = "no"
        THEN /\ main_pc' = "menu"
             /\ UNCHANGED main_exit
        ELSE /\ main_pc' = Leave(IF how = "yes" THEN "interrupt" ELSE how)
             /\ main_exit' = IF how = "yes" THEN "interrupt" ELSE how
    /\ UNCHANGED <<main_choice, main_rows, csv_closed, cleanup_ran, analyserVars, exceptMain>>

\* cleanup_resources(): the `del` may raise, which is caught; csvfile.close()
\* leaves the file closed also when it raises
MainCleanup ==
    /\ main_pc = "cleanup"
    /\ csv_closed' = TRUE
    /\ cleanup_ran' = TRUE
    /\ main_pc' = "ended"
    /\ UNCHANGED <<main_choice, main_rows, main_exit, analyserVars, exceptMain>>

-----------------------------------------------------------------------------
(* FDA_Scraper.process_single_submission                                   *)

\* the default of download_pdf_requests_only's max_retries
max_retries == 3

\* the submissions handled in the model
MaxSubmissions == 3

FileStates == {"none", "small", "large"}

\* what one attempt meets: the page request raises; a response (the page
\* itself or one of its links) starts with %PDF and is saved, the content
\* being more than 1000 bytes or not, or the save raising; or no PDF is found
AttemptOutcomes ==
    {"page_raises", "pdf_large", "pdf_small", "pdf_save_raises", "no_pdf", "no_pdf_save_raises"}

\* save_pdf_content(content, filename) as <<the file afterwards, the result>>:
\* the file is written, and removed again when it is not above 1000 bytes
save_pdf_content(file, outcome) ==
    CASE outcome = "pdf_large" -> <<"large", TRUE>>
      [] outcome = "pdf_small" -> <<"none", FALSE>>
      [] OTHER -> <<file, FALSE>>

\* process_single_submission is called: a file above 1000 bytes is skipped
FdaStart ==
    /\ fda_pc \in {"idle", "returned"}
    /\ fda_n < MaxSubmissions
    /\ fda_n' = fda_n + 1
    /\ \E file \in FileStates :
        /\ fda_before' = file
        /\ fda_file' = file
        /\ IF file = "large"
           THEN /\ fda_pc' = "returned"
                /\ fda_status' = "skipped"
                /\ fda_attempt' = 0
           ELSE /\ fda_pc' = "downloading"
                /\ fda_status' = "none"
                /\ fda_attempt' = 1
    /\ fda_html' = FALSE
    /\ UNCHANGED <<successful_downloads, analyserVars, exceptFda>>

\* one turn of `for attempt in range(max_retries)`, and the status when
\* download_pdf_requests_only returns in it
FdaAttempt ==
    /\ fda_pc = "downloading"
    /\ \E outcome \in AttemptOutcomes :
        LET last == fda_attempt = max_retries
            saved == save_pdf_content(fda_file, outcome)
        IN  CASE outcome \in {"pdf_large", "pdf_small", "pdf_save_raises"} ->
                    /\ fda_file' = saved[1]
                    /\ fda_status' = IF saved[2] THEN "success" ELSE "failed"
                    /\ fda_pc' = "returned"
                    /\ UNCHANGED <<fda_html, fda_attempt>>
              [] outcome \in {"no_pdf", "no_pdf_save_raises"} /\ last ->
                    /\ fda_html' = (outcome = "no_pdf")
                    /\ fda_status' = IF outcome = "no_pdf" THEN "success" ELSE "failed"
                    /\ fda_pc' = "returned"
                    /\ UNCHANGED <<fda_file, fda_attempt>>
              [] outcome = "page_raises" /\ last ->
                    /\ fda_status' = "failed"
                    /\ fda_pc' = "returned"
                    /\ UNCHANGED <<fda_file, fda_html, fda_attempt>>
              [] OTHER ->
                    /\ fda_attempt' = fda_attempt + 1
                    /\ UNCHANGED <<fda_pc, fda_file, fda_html, fda_status>>
    /\ successful_downloads' =
          IF fda_status' = "success" THEN successful_downloads + 1 ELSE successful_downloads
    /\ UNCHANGED <<fda_n, fda_before, analyserVars, exceptFda>>

-----------------------------------------------------------------------------
(* The state after Analyser() is constructed                               *)

Init ==
    /\ initial_results = <<>>
    /\ filtered_results = <<>>
    /\ additional_results = <<>>
    /\ neglected_results = <<>>
    /\ l1_pc = "idle"
    /\ l1_pages = 0
    /\ answer = <<>>
    /\ l1_ret = <<>>
    /\ l2_pc = "idle"
    /\ l2_results = <<>>
    /\ l2_i = 1
    /\ l2_web = "none"
    /\ l2_verdicts = <<>>
    /\ l2_ret = <<>>
    /\ alt_results = <<>>
    /\ alt_llm = "none"
    /\ alt_ret = <<>>
    /\ l3_pc = "idle"
    /\ l3_results = <<>>
    /\ l3_world = <<>>
    /\ l3_ret = <<>>
    /\ l4_pc = "idle"
    /\ l4_results = <<>>
    /\ l4_world = <<>>
    /\ attack_papers = <<>>
    /\ rejected_papers = <<>>
    /\ cls_pc = "idle"
    /\ cls_page = <<>>
    /\ cls_label = -1
    /\ csv_rows = <<>>
    /\ batch_pc = "idle"
    /\ batch_mode = "none"
    /\ batch_docs = <<>>
    /\ batch_i = 1
    /\ processed = 0
    /\ failed = 0
    /\ invoked = {}
    /\ failures = {}
    /\ doc_pc = "idle"
    /\ doc_n = 0
    /\ algorithm = <<>>
    /\ all_answers = <<>>
    /\ alt_keywords = <<>>
    /\ filtered_answer = <<>>
    /\ all_papers = <<>>
    /\ doc_attack_papers = <<>>
    /\ rejections = <<>>
    /\ doc_results = <<>>
    /\ doc_search_results = <<>>
    /\ produced = NothingProduced
    /\ call_pc = "idle"
    /\ call_fn = "none"
    /\ call_arg = <<>>
    /\ call_out = <<>>
    /\ seeded = FALSE
    /\ doc_webs = <<>>
    /\ rerun_pc = "start"
    /\ rerun_input = <<>>
    /\ rerun_first = <<>>
    /\ rerun_second = <<>>
    /\ doc_calls = <<>>
    /\ reported_candidates = <<>>
    /\ reported_papers = <<>>
    /\ kc_pc = "idle"
    /\ kc_reply = <<"fail">>
    /\ kc_out = <<FALSE, <<>>>>
    /\ gi_pc = "idle"
    /\ gi_search = <<"raise">>
    /\ gi_extract = <<>>
    /\ main_pc = "start"
    /\ main_choice = 0
    /\ main_rows = 0
    /\ main_exit = "none"
    /\ csv_closed = FALSE
    /\ cleanup_ran = FALSE
    /\ fda_pc = "idle"
    /\ fda_n = 0
    /\ fda_before = "none"
    /\ fda_file = "none"
    /\ fda_html = FALSE
    /\ fda_attempt = 0
    /\ fda_status = "none"
    /\ successful_downloads = 0

\* level_1 called again and again on one Analyser
NextL1 == L1Start \/ L1Question \/ L1Finish

SpecL1 == Init /\ [][NextL1]_vars

\* level_2 called again and again on one Analyser
NextL2 == L2Start \/ L2Step \/ L2Return

SpecL2 == Init /\ [][NextL2]_vars

\* one call of level_2_alt
NextAlt == AltCall

SpecAlt == Init /\ [][NextAlt]_vars

\* one call of level_3
NextL3 == L3Call

SpecL3 == Init /\ [][NextL3]_vars

\* one call of level_4
NextL4 == L4Call

SpecL4 == Init /\ [][NextL4]_vars

\* one call of the paper classifier
NextClassify == Classify

SpecClassify == Init /\ [][NextClassify]_vars

\* process_document called for one document after the other
NextDoc ==
    \/ DocEarlyReturn \/ DocStart \/ DocLevel1 \/ DocSeed \/ DocLevel2Alt
    \/ DocLevel2 \/ DocLevel3 \/ DocLevel4 \/ DocReport

SpecDoc == Init /\ [][NextDoc]_vars

\* one batch run
NextBatch == BatchStart \/ BatchSkip \/ BatchCreateRow \/ BatchFinish

SpecBatch == Init /\ [][NextBatch]_vars

\* one batch run in which the loop keeps taking its next turn: every call
\* the loop makes returns or raises
SpecBatchFair == SpecBatch /\ WF_vars(NextBatch)

\* one call of one level function
NextCall == CallLevel1 \/ CallLevel2 \/ CallLevel2Alt \/ CallLevel3 \/ CallLevel4

SpecCall == Init /\ [][NextCall]_vars

\* level_1 run twice on one input, with other documents before and between
NextRerun == RerunPrior \/ RerunFirst \/ RerunSecond

SpecRerun == Init /\ [][NextRerun]_vars

\* one call of the keyword filter of the LLM
NextComplete == CompleteCall

SpecComplete == Init /\ [][NextComplete]_vars

\* one call of the paper search
NextGetInfo == GetInfoCall

SpecGetInfo == Init /\ [][NextGetInfo]_vars

\* one session of main
NextMain ==
    \/ MainStart
    \/ MainConstruct
    \/ MainMenu
    \/ MainWriteRow
    \/ MainProcessed
    \/ MainAsk
    \/ MainInterrupted
    \/ MainCleanup

SpecMain == Init /\ [][NextMain]_vars

\* the submissions of one download run, one after the other
NextFda ==
    \/ FdaStart
    \/ FdaAttempt

SpecFda == Init /\ [][NextFda]_vars

-----------------------------------------------------------------------------
(* Claims                                                                  *)

InSeq(x, s) == \E k \in 1..Len(s) : s[k] = x

\* C1: no element of initial_results has a text that is a substring of the
\* text of a different, higher-ranked element of initial_results.
C1_ContainmentDedup ==
    \A i \in 1..Len(initial_results) : \A j \in 1..Len(initial_results) :
        i < j => ~IsSubstring(initial_results[j][2], initial_results[i][2])

\* C3: in every state during and after a Level 2 run, filtered_results has
\* at most NUMBER_OF_KEYWORDS entries.
C3_FilteredWithinCap == Len(filtered_results) <= NUMBER_OF_KEYWORDS

\* the cap is reached inside the loop while candidates are still left
C3_Witness ==
    /\ l2_pc = "loop"
    /\ Len(filtered_results) = NUMBER_OF_KEYWORDS
    /\ l2_i <= Len(l2_results)

\* C4: a candidate whose web validation failed with an exception is in
\* neglected_results and not in filtered_results.
C4_WebFailureNeglected ==
    (l2_pc = "loop" /\ l2_web = "raised") =>
        /\ InSeq(l2_results[l2_i - 1], neglected_results)
        /\ ~InSeq(l2_results[l2_i - 1], filtered_results)

\* C5 as stated: whenever the keyword filter fails (success = false, or the
\* call raises), level_2_alt returns an empty list.
C5_AltEmptyOnFailure == alt_llm \in {"failure", "raise"} => alt_ret = <<>>

\* C5 amended: when keyword_completion returns success = false, level_2_alt
\* returns the texts of the first five raw candidates, in order, less those
\* the generic-term filter matches; only when the call raises is the list
\* empty.
C5_AltFallbackOnFailure ==
    /\ alt_llm = "failure" =>
        alt_ret = SelectSeq([k \in 1..Min(5, Len(alt_results)) |-> alt_results[k][2]],
                            LAMBDA t : ~find_genericwords(t))
    /\ alt_llm = "raise" => alt_ret = <<>>

\* the filter failed on more than five candidates and five keywords came back
C5_Witness ==
    /\ alt_llm = "failure"
    /\ Len(alt_results) > 5
    /\ Len(alt_ret) = 5


\* C6: level_3 returns one outer list per search prefix, three in all,
\* each with one inner list per candidate; the inner list at [i][j] is what
\* the paper search gave for the query prefix i + keyword j, and it is
\* empty when the search gave nothing or raised (and when the keyword is
\* empty, for which no query is issued).
C6_Level3Shape ==
    l3_pc = "done" =>
        /\ Len(l3_ret) = 3
        /\ \A i \in 1..3 :
            /\ Len(l3_ret[i]) = Len(l3_results)
            /\ \A j \in 1..Len(l3_results) :
                LET keyword == l3_results[j][2]
                    query == SearchPrefixes[i] \o keyword
                IN  l3_ret[i][j] =
                        IF keyword # <<>> /\ l3_world[query][1] = "ok"
                        THEN l3_world[query][2]
                        ELSE <<>>

\* a call with two candidates in which one search raised, one found
\* nothing and one found papers
C6_Witness ==
    /\ l3_pc = "done"
    /\ Len(l3_results) = 2
    /\ l3_results[1][2] # <<>> /\ l3_results[2][2] # <<>>
    /\ l3_world[SearchPrefixes[1] \o l3_results[1][2]][1] = "raise"
    /\ l3_world[SearchPrefixes[1] \o l3_results[2][2]] = <<"ok", <<PaperA>>>>
    /\ l3_world[SearchPrefixes[2] \o l3_results[1][2]] = <<"ok", <<>>>>
    /\ l3_ret[1][2] = <<PaperA>>

\* whether record r is among the records of list s, labelled or not
Labelled(r, s) ==
    \E k \in 1..Len(s) : Len(s[k]) = Len(r) + 1 /\ SubSeq(s[k], 1, Len(r)) = r

\* C7: every record of the input that is not classified as an attack
\* paper, a record of fewer than three fields and one whose page could not
\* be fetched included, is in rejected_papers at the same
\* [prefix][keyword] position; each record is in exactly one of the two.
C7_RejectedKeepsEveryRecord ==
    l4_pc = "done" =>
        \A i \in 1..Len(l4_results) : \A j \in 1..Len(l4_results[i]) :
            \A k \in 1..Len(l4_results[i][j]) :
                LET r == l4_results[i][j][k]
                IN  Labelled(r, attack_papers[i][j]) # InSeq(r, rejected_papers[i][j])

\* the phrases of the model's pages that mark each attack time
C8_InferencePhrases == { <<"membership", "inference">>, <<"evasion">> }
C8_TrainingPhrases == { <<"training", "time">>, <<"poisoning">> }
C8_Mentions(page, phrases) == \E ph \in phrases : IsSubstring(ph, LowerText(page))

\* C8: a page that matches an inference-time pattern is labelled 0 even
\* when it also matches a training-time pattern; a page that matches only
\* training-time patterns is labelled 1; a page that matches neither, or
\* has no text, is labelled -1.
C8_InferenceTakesPrecedence ==
    cls_pc = "done" =>
        /\ C8_Mentions(cls_page, C8_InferencePhrases) => cls_label = 0
        /\ (~C8_Mentions(cls_page, C8_InferencePhrases)
                /\ C8_Mentions(cls_page, C8_TrainingPhrases)) => cls_label = 1
        /\ (~C8_Mentions(cls_page, C8_InferencePhrases)
                /\ ~C8_Mentions(cls_page, C8_TrainingPhrases)) => cls_label = -1
        /\ cls_page = <<>> => cls_label = -1

\* a page with both an inference-time and a training-time phrase
C8_Witness ==
    /\ cls_pc = "done"
    /\ cls_page = <<"Evasion", "poisoning", "attack">>
    /\ cls_label = 0

\* C9: every row create_row appends to the CSV has exactly 10 fields, as
\* many as the header row: on the success path, on the error path, and
\* for the one-element result lists of the early returns, whose missing
\* analysis fields are filled with the sentinel.
C9_RowsHaveTenFields ==
    /\ Len(fieldnames) = 10
    /\ \A k \in 1..Len(csv_rows) : Len(csv_rows[k]) = Len(fieldnames)

\* the CSV holds a row of an early return, filled with the sentinel, and
\* an error row
C9_Witness ==
    /\ \E k \in 1..Len(csv_rows) :
        /\ csv_rows[k][6] = <<"File not found">>
        /\ csv_rows[k][7] = <<"No data available">>
    /\ \E k \in 1..Len(csv_rows) : csv_rows[k][2] = <<"Error">>

\* whether the document at position p of the batch has its PDF and its
\* input record
C10_Eligible(p) ==
    /\ p \in DOMAIN batch_docs
    /\ batch_docs[p].pdf
    /\ batch_docs[p].rec

\* C10: in a batch run, whatever failed or raised for the documents
\* before it, create_row is eventually invoked for every document of the
\* requested sequence whose PDF and input record exist.
C10_LaterDocumentsReached ==
    \A p \in 1..MaxDocs :
        (batch_pc = "loop" /\ C10_Eligible(p)) ~> (p \in invoked)

\* create_row was invoked for a document after an earlier document of the
\* batch failed
C10_Witness ==
    \E p \in invoked : \E q \in failures : q < p

\* the entries a reported block shows, as scored terms
C2_Reported(block) ==
    IF block[1] = "lines" THEN {<<block[2][k][3], block[2][k][2]>> : k \in 1..Len(block[2])}
    ELSE {}

\* C2: the Level-1, Level-2 and input-format entries return_results
\* reports for a document are entries produced while that document was
\* processed, never entries an earlier document left in initial_results,
\* filtered_results or additional_results.
C2_NoCrossDocumentEntries ==
    (doc_pc = "returned" /\ Len(doc_results) = 4) =>
        /\ C2_Reported(doc_results[1]) \subseteq produced.l1
        /\ C2_Reported(doc_results[2]) \subseteq produced.l2
        /\ C2_Reported(doc_results[3]) \subseteq produced.add

\* whether x is a list
C11_IsList(x) == DOMAIN x = 1..Len(x)

C12_SeedRoundTrip ==
    (doc_pc \in {"level3", "level4", "report"} /\ seeded) =>
        ((filtered_results # <<>> /\ filtered_results[1] = <<100, algorithm>>)
            <=> (~find_genericwords(algorithm)
                    /\ CheckDescFrom(doc_webs[1], 1) = "matched"))

C14_Discovered == KeepAboveFloor(<<rerun_input[1], rerun_input[2], rerun_input[3]>>)

\* the place of a candidate in the order of discovery
C14_FoundAt(c) == CHOOSE k \in 1..Len(C14_Discovered) : C14_Discovered[k] = c

\* C14: initial_results is ordered by confidence descending, and two
\* candidates of equal confidence stand in the order in which they were
\* discovered (question order, then paragraph order).
C14_StableTieOrder ==
    (rerun_pc = "between" /\ rerun_input # <<>>) =>
        \A k, m \in 1..Len(initial_results) :
            k < m =>
                /\ initial_results[k][1] >= initial_results[m][1]
                /\ initial_results[k][1] = initial_results[m][1] =>
                      C14_FoundAt(initial_results[k]) < C14_FoundAt(initial_results[m])

\* C15: after level_1 on a non-empty paragraph list, every element of
\* initial_results is an answer to one of questions 1 to 3, and
\* additional_results is exactly the answer list of question 4: no answer
\* of question 4 is merged into initial_results and no answer of
\* questions 1 to 3 is placed in additional_results.
C15_InputFormatKeptApart ==
    (rerun_pc \in {"between", "done"} /\ rerun_input # <<>>) =>
        /\ \A k \in 1..Len(initial_results) :
              initial_results[k] \in {rerun_input[1], rerun_input[2], rerun_input[3]}
        /\ additional_results =
              (IF rerun_input[4] # NoAnswer /\ rerun_input[4][1] > ConfidenceFloor
               THEN <<rerun_input[4]>> ELSE <<>>)

\* a run whose question 4 found an answer that no other question found
C15_Witness ==
    /\ rerun_pc = "between"
    /\ rerun_input # <<>>
    /\ rerun_input[4] = <<90, T_xgbc>>
    /\ initial_results = <<<<50, T_cnn>>>>
    /\ additional_results = <<<<90, T_xgbc>>>>

\* C16: after level_1 on an empty paragraph list, initial_results and
\* additional_results are both empty and the returned list is empty,
\* whatever documents the same Analyser processed before.
C16_EmptyPagesEmptyOutputs ==
    (rerun_pc = "between" /\ rerun_input = <<>>) =>
        /\ initial_results = <<>>
        /\ additional_results = <<>>
        /\ rerun_first = <<>>

\* C17: reporting lines up with the Level 3 and Level 4 positions: for every
\* prefix index i and every index j of the combined candidates (validated
\* keywords, then the alternative keywords at 0.9) whose attack-paper list
\* [i][j] is non-empty, the search results of the document hold a section
\* headed prefix_i + keyword_j that lists those papers.
C17_ReportLinesUp ==
    doc_pc = "returned" =>
        \A i \in 1..Len(reported_papers) :
            \A j \in 1..Len(reported_candidates) :
                (j <= Len(reported_papers[i]) /\ reported_papers[i][j] # <<>>) =>
                    InSeq(<<"entry", SearchPrefixes[i] \o reported_candidates[j][2],
                            reported_papers[i][j]>>, doc_search_results)

SameShape(a, b) ==
    /\ Len(a) = Len(b)
    /\ \A i \in 1..Len(a) : Len(a[i]) = Len(b[i])

\* C18: for every Level 3 structure given to level_4 and every behaviour of
\* the page fetch (content, the "None" sentinel, an exception), attack_papers
\* and rejected_papers both have the nested shape of the input: as many
\* prefix rows, and in each row as many keyword positions.
C18_Level4KeepsShape ==
    l4_pc = "done" =>
        /\ SameShape(attack_papers, l4_results)
        /\ SameShape(rejected_papers, l4_results)

\* two keyword positions per row, one fetch raising and one giving the
\* sentinel, a position that ends with no attack paper and one that ends
\* with no rejected paper
C18_Witness ==
    /\ l4_pc = "done"
    /\ Len(l4_results) = Len(SearchPrefixes)
    /\ Len(l4_results[1]) = 2
    /\ l4_world[PaperA[3]] = <<"error">>
    /\ l4_world[PaperB[3]] = <<"no_page">>
    /\ l4_results[1][1] # <<>> /\ attack_papers[1][1] = <<>>
    /\ l4_results[1][2] # <<>> /\ rejected_papers[1][1] = <<>>

\* C19: after any level_2 run no element of filtered_results or
\* neglected_results matches a generic-term regex, and every non-generic
\* candidate looked at before the cap was reached is in filtered_results when
\* its web validation returned true and in neglected_results when it
\* returned false.
C19_GenericDroppedOthersRouted ==
    /\ \A k \in 1..Len(filtered_results) : ~find_genericwords(filtered_results[k][2])
    /\ \A k \in 1..Len(neglected_results) : ~find_genericwords(neglected_results[k][2])
    /\ \A k \in 1..Len(l2_verdicts) :
          LET c == l2_results[k]
          IN  (c[2] # <<>> /\ ~find_genericwords(c[2])) =>
                  IF l2_verdicts[k] THEN InSeq(c, filtered_results)
                  ELSE InSeq(c, neglected_results)

\* a finished run that looked at a generic candidate, rejected another,
\* and validated candidates up to the cap
C19_Witness ==
    /\ l2_pc = "idle"
    /\ l2_ret # <<>>
    /\ \E k \in 1..Len(l2_verdicts) : find_genericwords(l2_results[k][2])
    /\ neglected_results # <<>>
    /\ CapReached(filtered_results)

LevelOrder == <<"level_1", "level_2_alt", "level_2", "level_3", "level_4">>
LevelRank(level) == CHOOSE r \in 1..Len(LevelOrder) : LevelOrder[r] = level
StepOrder ==
    <<"level1", "seed", "alt", "level2", "level3", "level4", "report", "returned">>
StepRank(pc) == CHOOSE r \in 1..Len(StepOrder) : StepOrder[r] = pc

\* the calls of the document in hand are in the order of the levels and no
\* level is called twice
C20_CallsInOrder ==
    \A a, b \in 1..Len(doc_calls) :
        a < b => LevelRank(doc_calls[a]) < LevelRank(doc_calls[b])

\* a level is called only after the levels it depends on were given their turn
C20_StartsAfter ==
    /\ doc_pc \in {"alt", "level2", "level3", "level4", "report"} => InSeq("level_1", doc_calls)
    /\ doc_pc \in {"level1", "seed", "alt"} =>
          ~InSeq("level_2_alt", doc_calls) /\ ~InSeq("level_2", doc_calls)
    /\ doc_pc \in {"level1", "seed", "alt", "level2", "level3"} => ~InSeq("level_3", doc_calls)
    /\ doc_pc \in {"level1", "seed", "alt", "level2", "level3", "level4"} =>
          ~InSeq("level_4", doc_calls)

\* whatever a step gave, the next step of process_document has its turn next
C20_NextStepFollows ==
    (doc_pc \in {"level1", "seed", "alt", "level2", "level3", "level4", "report"}
        /\ doc_pc' # doc_pc) => StepRank(doc_pc') = StepRank(doc_pc) + 1

\* C20: within process_document the levels run strictly in sequence and at
\* most once each per document: Level 1 is over before Level 2 and Level 2-Alt
\* start, both are over before Level 3 starts, Level 3 is over before Level 4
\* starts; a level that fails is never called again for the document, its
\* output is empty and the next level still has its guard evaluated.
C20_LevelsInSequenceOnce ==
    /\ [](C20_CallsInOrder /\ C20_StartsAfter)
    /\ [][C20_NextStepFollows]_vars

\* a document for which all five levels were called, the paper search found
\* nothing for any position, and level_4 was still called
C20_Witness ==
    /\ doc_pc = "returned"
    /\ doc_calls = LevelOrder
    /\ reported_papers # <<>>
    /\ \A i \in 1..Len(reported_papers) :
          \A j \in 1..Len(reported_papers[i]) : reported_papers[i][j] = <<>>

\* the cleaned form of one item of the reply, before the ordinal is taken off
C21_Cleaned(item) == SplitDash(SplitFirst(item, ":"))

C21_Has(token, text) == \E k \in 1..Len(text) : text[k] = token

\* C21: for every reply of the model, each keyword of the list a successful
\* keyword_completion returns is non-empty, at most 60 characters long, has
\* no comma, newline or colon and no " - " separator, does not contain "most
\* relevant" in any case, and has had one leading "N." ordinal taken off.
C21_KeywordsAreClean ==
    (kc_pc = "done" /\ kc_out[1]) =>
        \A k \in 1..Len(kc_out[2]) :
            LET kw == kc_out[2][k]
            IN  /\ kw # <<>>
                /\ TextLen(kw) <= 60
                /\ \A sep \in {",", "\n", ":"} : ~C21_Has(sep, kw)
                /\ \A d \in 2..(Len(kw) - 1) : kw[d] # "-"
                /\ ~IsSubstring(<<"most", "relevant">>, LowerText(kw))
                /\ \E m \in 1..Len(SplitItems(kc_reply[2])) :
                      LET c == C21_Cleaned(SplitItems(kc_reply[2])[m])
                      IN  /\ c # <<>>
                          /\ IF Head(c) \in Ordinals THEN kw = Tail(c) ELSE kw = c

\* the reply "1. cnn, <a word of 61 letters>": the ordinal is taken off
\* the first item and the second is dropped
C21_Witness ==
    /\ kc_pc = "done"
    /\ kc_reply = <<"ok", <<"1.", "cnn", ",", LongWord>>>>
    /\ kc_out = <<TRUE, <<T_cnn>>>>

\* C22: check_desc(keyword) returns true only if the content of at least one
\* sampled search-result page matched an AI/ML term; a search failure, a
\* page-fetch failure or a timeout counts as no result and never yields true
\* by itself.
C22_TrueOnlyOnMatch ==
    (l2_pc = "loop" /\ l2_web # "none" /\ l2_verdicts # <<>>) =>
        (l2_verdicts[Len(l2_verdicts)] => l2_web = "matched")

\* C23: for every Level 1 output, empty or not, when a known-algorithm name
\* exists for the document and is not already among the candidates, the list
\* passed on to Level 2 and Level 2-Alt has (1.0, name) at rank 0; when the
\* name is already a candidate the list is passed on unchanged.
C23_SeedAtRankZero ==
    (doc_pc = "alt" /\ algorithm # <<>>) =>
        \/ /\ all_answers # <<>>
           /\ all_answers[1] = <<100, algorithm>>
           /\ seeded
        \/ /\ ~seeded
           /\ \E k \in 1..Len(all_answers) : all_answers[k][2] = algorithm

C24_HasToken(text) == \E k \in 1..Len(text) : Lower(text[k]) = "survey"

\* C24: no paper record returned by get_info has the token "survey" in its
\* title or in its abstract, compared without regard to case, for every
\* sequence of search results.
C24_NoSurveyReturned ==
    \A k \in 1..Len(gi_extract) :
        ~C24_HasToken(gi_extract[k][1]) /\ ~C24_HasToken(gi_extract[k][2])

\* a survey by its title, a paper kept, a survey by its abstract
C24_Witness ==
    /\ gi_pc = "done"
    /\ gi_search = <<"ok", << <<"full", <<"A", "Survey">>, <<"data">>, "url 2">>,
                              <<"full", <<"attacks">>, <<"data">>, "url 1">>,
                              <<"full", <<"attacks">>, <<"a", "survey">>, "url 3">> >> >>
    /\ gi_extract = << << <<"attacks">>, <<"data">>, "url 1" >> >>

\* C25: the "Rejected Papers:" divider is optional: it is in a document's
\* search results only when at least one rejected paper entry follows it.
C25_DividerHasEntries ==
    (doc_pc = "returned" /\ doc_calls # <<>>) =>
        \A k \in 1..Len(doc_search_results) :
            doc_search_results[k] = <<"Rejected Papers:">> =>
                /\ k < Len(doc_search_results)
                /\ doc_search_results[k + 1][1] = "entry"

\* C26: seeding the known algorithm into the Level 2 input leaves the
\* Analyser's initial_results unchanged: the Level-1 column that
\* return_results reports lists only Level 1's own deduplicated results.
C26_SeedLeavesInitialResults ==
    [][doc_pc = "seed" => initial_results' = initial_results]_vars

\* C27: every call of create_row appends exactly one row to the CSV, never
\* zero and never two, on every path, the paths where writing the row or
\* flushing the file raises after the document was processed included.
C27_OneRowPerCall ==
    [][invoked' # invoked => Len(csv_rows') = Len(csv_rows) + 1]_vars

\* whether a is b with some elements left out, the order kept
RECURSIVE C28_IsSubSequence(_, _)
C28_IsSubSequence(a, b) ==
    IF a = <<>> THEN TRUE
    ELSE IF b = <<>> THEN FALSE
    ELSE IF Head(a) = Head(b) THEN C28_IsSubSequence(Tail(a), Tail(b))
    ELSE C28_IsSubSequence(a, Tail(b))

\* C28: every level_2 run on a non-empty candidate list starts from empty
\* filtered_results and neglected_results, and afterwards the two lists are
\* disjoint sub-sequences of the input candidates, in the input's order;
\* nothing of an earlier run is left in either list.
C28_ListsStartEmptyAndStayWithinInput ==
    l2_results # <<>> =>
        LET looked_at == SubSeq(l2_results, 1, Len(l2_verdicts))
        IN  /\ l2_verdicts = <<>> => (filtered_results = <<>> /\ neglected_results = <<>>)
            /\ C28_IsSubSequence(filtered_results, looked_at)
            /\ C28_IsSubSequence(neglected_results, looked_at)
            /\ \A a \in 1..Len(filtered_results) : \A b \in 1..Len(neglected_results) :
                  filtered_results[a] # neglected_results[b]

\* a run that looked at every candidate and put some in each list
C28_Witness ==
    /\ l2_pc = "idle"
    /\ Len(l2_results) >= 3
    /\ Len(l2_verdicts) = Len(l2_results)
    /\ Len(filtered_results) >= 2
    /\ Len(neglected_results) >= 1
    /\ l2_ret = filtered_results

\* C29: on every exit path of main (menu exit, declined continuation,
\* KeyboardInterrupt, an unexpected exception, failure to construct the
\* Analyser) cleanup_resources runs and the CSV file is closed before the
\* program ends, and no row is written after the file is closed.
C29_CleanupOnEveryExit ==
    /\ [](main_pc = "ended" => (cleanup_ran /\ csv_closed))
    /\ [](main_exit # "none" => main_pc \in {"cleanup", "ended"})
    /\ [][csv_closed => main_rows' = main_rows]_vars

\* the program ended after rows were written and the user interrupted it
C29_Witness ==
    /\ main_pc = "ended"
    /\ main_exit = "interrupt"
    /\ main_rows >= 2
    /\ csv_closed

\* C30: process_single_submission returns 'success' only if, after at most
\* max_retries download attempts, a PDF file larger than 1000 bytes is at
\* pdf_filename; 'skipped' only if such a file was already there; 'failed'
\* otherwise.
C30_StatusMatchesFile ==
    fda_pc = "returned" =>
        /\ fda_attempt <= max_retries
        /\ fda_status = "skipped" <=> fda_before = "large"
        /\ fda_status = "success" <=> (fda_before # "large" /\ fda_file = "large")
        /\ fda_status \in {"skipped", "success", "failed"}

=============================================================================
